---------------------------- MODULE Spec2Model ----------------------------
(***************************************************************************)
(* Model of the bank statement parsing and reconciliation engine           *)
(* (backend/app: parser.py, ai_parser.py, utils.py, batch_processing.py). *)
(*                                                                         *)
(* Money.  Python floats are modelled as exact decimals counted in units   *)
(* of 1/CentUnits of a cent, so that round(x, 2) is a real operation: it   *)
(* maps a value to the nearest whole cent.  CentUnits is odd, so no value  *)
(* lies half way between two cents and the rounding mode never matters.    *)
(* Binary floating point error (for instance 0.06 - 0.05 < 0.01 in IEEE    *)
(* doubles) is outside the model of the validator; the Statements it lets  *)
(* through one cent apart are given to the statistics as inputs.           *)
(*                                                                         *)
(* Optional values.  Python None, and a dictionary key that is absent, are *)
(* the empty sequence; a present value v is the one-element sequence <<v>>.*)
(***************************************************************************)
EXTENDS Integers, Sequences, FiniteSets, TLC

VARIABLES
    \* Reconciliation Validator: the arguments of one call and its result
    starting_balance, ending_balance, transactions, validation,
    \* what the validator of ai_parser.py and the one of utils.py return on
    \* the same arguments
    ai_validation, utils_validation,
    \* Strategy Selector: the candidates of one call and the one returned
    results, best_result,
    \* Entry points: which one is called; what text extraction gives and the
    \* year of the clock; what the AI collaborator does; what the whole-
    \* document strategies give; and the Statement returned
    entry, extracted_text, clock_year, ai_input, utils_input, statement,
    \* Batch Aggregator: the arguments of process_batch, the futures of the
    \* executor, the results collected, the main thread's position and the
    \* BatchResult returned
    pdf_files, use_ai, max_workers, futures, batch_results, pc, batch_result,
    \* Statistics and summary report: the Statements given to
    \* _calculate_statistics, what it returns or raises, and the report
    \* generated from the batch saved with them
    stat_results, stat_outcome, summary_report,
    \* Date Normalizer: the arguments of one call of _parse_date (the year of
    \* the clock is clock_year) and what it returns
    token, context, normalized_date,
    \* A second run of the heuristic pipeline on the same text: the year of
    \* the clock at that run and the Statement it returns
    rerun_year, rerun_statement,
    \* Direction Classifier: the arguments of one call of
    \* _determine_transaction_direction and what the classifier of parser.py
    \* and the one of utils.py return
    line_text, credit_flag, debit_flag, parser_direction, utils_direction,
    \* Pattern pass: the text scanned, the number of its lines the loop has
    \* gone through, the section state and the transactions so far
    scan_text, scan_pos, scan_credit, scan_debit, scan_transactions

validatorVars ==
    <<starting_balance, ending_balance, transactions, validation,
      ai_validation, utils_validation>>

selectorVars == <<results, best_result>>

parseVars == <<entry, extracted_text, clock_year, ai_input, utils_input, statement>>

batchVars ==
    <<pdf_files, use_ai, max_workers, futures, batch_results, pc, batch_result>>

aggVars == <<stat_results, stat_outcome, summary_report>>

dateVars == <<token, context, normalized_date>>

rerunVars == <<rerun_year, rerun_statement>>

directionVars ==
    <<line_text, credit_flag, debit_flag, parser_direction, utils_direction>>

scanVars ==
    <<scan_text, scan_pos, scan_credit, scan_debit, scan_transactions>>

vars ==
    <<validatorVars, selectorVars, parseVars, batchVars, aggVars, dateVars,
      rerunVars, directionVars, scanVars>>

---------------------------------------------------------------------------
(* Optional values *)

None == <<>>

Some(v) == <<v>>

Val(x) == x[1]

Abs(x) == IF x < 0 THEN -x ELSE x

\* the outcome of a call that may raise: the exception, or the value
Raised == [raised |-> TRUE, result |-> <<>>]

Returned(r) == [raised |-> FALSE, result |-> r]

---------------------------------------------------------------------------
(* Texts that the code inspects character by character are sequences of   *)
(* one-character strings                                                    *)

UpperLetters ==
    <<"A", "B", "C", "D", "E", "F", "G", "H", "I", "J", "K", "L", "M",
      "N", "O", "P", "Q", "R", "S", "T", "U", "V", "W", "X", "Y", "Z">>

LowerLetters ==
    <<"a", "b", "c", "d", "e", "f", "g", "h", "i", "j", "k", "l", "m",
      "n", "o", "p", "q", "r", "s", "t", "u", "v", "w", "x", "y", "z">>

LowerChar(c) ==
    IF \E i \in 1..26 : UpperLetters[i] = c
    THEN LowerLetters[CHOOSE i \in 1..26 : UpperLetters[i] = c]
    ELSE c

\* str.lower() on a character text
LowerText(chars) == [i \in 1..Len(chars) |-> LowerChar(chars[i])]

\* word in chars
Contains(chars, word) ==
    \E i \in 1..(Len(chars) - Len(word) + 1) :
        SubSeq(chars, i, i + Len(word) - 1) = word

\* chars.replace(c, '') for every c of removed
Without(chars, removed) ==
    LET Kept(c) == c \notin removed
    IN SelectSeq(chars, Kept)

DigitChars == <<"0", "1", "2", "3", "4", "5", "6", "7", "8", "9">>

IsDigit(c) == \E i \in 1..10 : DigitChars[i] = c

DigitValue(c) == (CHOOSE i \in 1..10 : DigitChars[i] = c) - 1

\* the number a run of digits writes
RECURSIVE DigitsValue(_)
DigitsValue(digits) ==
    IF digits = <<>> THEN 0
    ELSE 10 * DigitsValue(SubSeq(digits, 1, Len(digits) - 1))
         + DigitValue(digits[Len(digits)])

---------------------------------------------------------------------------
(* Money *)

\* units per cent: 0.01 is CentUnits units, 1.00 is 100 * CentUnits units
CentUnits == 5

\* round(x, 2): the nearest whole number of cents, in units
Round2(x) == ((2 * x + CentUnits) \div (2 * CentUnits)) * CentUnits

\* float(chars) for texts of signs, digits, points and other characters:
\* the value in units, or None for ValueError.  The texts of the model have
\* at most three decimals, the third one even.
ParseFloat(chars) ==
    LET signed == chars # <<>> /\ chars[1] \in {"-", "+"}
        body   == IF signed THEN Tail(chars) ELSE chars
        dots   == {i \in 1..Len(body) : body[i] = "."}
        wellformed ==
            /\ \A i \in 1..Len(body) : body[i] = "." \/ IsDigit(body[i])
            /\ Cardinality(dots) <= 1
            /\ \E i \in 1..Len(body) : IsDigit(body[i])
        dot    == IF dots = {} THEN Len(body) + 1 ELSE CHOOSE i \in dots : TRUE
        whole  == SubSeq(body, 1, dot - 1)
        frac   == SubSeq(body, dot + 1, Len(body))
        FracDigit(k) == IF k <= Len(frac) THEN DigitValue(frac[k]) ELSE 0
        magnitude ==
            DigitsValue(whole) * 100 * CentUnits
            + FracDigit(1) * 10 * CentUnits
            + FracDigit(2) * CentUnits
            + (FracDigit(3) * CentUnits) \div 10
    IN IF wellformed
       THEN Some(IF chars[1] = "-" THEN -magnitude ELSE magnitude)
       ELSE None

\* str.lower() on the direction texts of the model
Lower(s) ==
    CASE s = "Credit" -> "credit"
      [] s = "CREDIT" -> "credit"
      [] s = "Debit"  -> "debit"
      [] s = "DEBIT"  -> "debit"
      [] OTHER        -> s

---------------------------------------------------------------------------
(* Reconciliation Validator: BankStatementParser._validate_transactions *)

\* a warning or a message: its text and the number formatted into it
Text(kind, n) == [kind |-> kind, n |-> n]

\* 'amount' not in t or 'direction' not in t
MissingRequiredField(t) == t.amount = None \/ t.direction = None

\* invalid_transactions: the indices of the transactions lacking a field
InvalidTransactions(txns) ==
    {i \in 1..Len(txns) : MissingRequiredField(txns[i])}

\* mutation of Warnings: the transaction checks placed after the early
\* return, so they are skipped when a balance is missing
WarningsAfterEarlyReturn(start, end, txns) ==
    (IF start = None THEN <<Text("no_starting_balance", 0)>> ELSE <<>>)
    \o (IF end = None THEN <<Text("no_ending_balance", 0)>> ELSE <<>>)
    \o (IF start = None \/ end = None THEN <<>>
        ELSE (IF txns = <<>> THEN <<Text("no_transactions", 0)>> ELSE <<>>)
             \o (IF InvalidTransactions(txns) # {}
                 THEN <<Text("missing_required_fields",
                             Cardinality(InvalidTransactions(txns)))>>
                 ELSE <<>>))

\* the warnings, in the order the code appends them
Warnings(start, end, txns) ==
    (IF start = None THEN <<Text("no_starting_balance", 0)>> ELSE <<>>)
    \o (IF end = None THEN <<Text("no_ending_balance", 0)>> ELSE <<>>)
    \o (IF txns = <<>> THEN <<Text("no_transactions", 0)>> ELSE <<>>)
    \o (IF InvalidTransactions(txns) # {}
        THEN <<Text("missing_required_fields",
                    Cardinality(InvalidTransactions(txns)))>>
        ELSE <<>>)

\* one step of the replay loop: the balance after transaction t
ApplyTransaction(balance, t) ==
    IF MissingRequiredField(t) THEN balance
    ELSE IF Lower(Val(t.direction)) = "credit" THEN balance + Val(t.amount)
    ELSE IF Lower(Val(t.direction)) = "debit" THEN balance - Val(t.amount)
    ELSE balance

\* the replay loop over the transaction list
RECURSIVE Replay(_, _)
Replay(balance, txns) ==
    IF txns = <<>> THEN balance
    ELSE Replay(ApplyTransaction(balance, Head(txns)), Tail(txns))

\* mutation of WithinTolerance: <= in place of <
WithinToleranceInclusive(difference) == Abs(difference) <= CentUnits

\* is_valid = abs(difference) < 0.01
WithinTolerance(difference) == Abs(difference) < CentUnits

\* mutation of Difference: the absolute difference
DifferenceAbsolute(calculated, expected) == Abs(calculated - expected)

\* difference = calculated_ending_balance - ending_balance
Difference(calculated, expected) == calculated - expected

\* mutation of MissingBalanceResult: the replay done before the check, a
\* missing starting balance counted as zero
MissingBalanceResultReplayed(start, end, txns) ==
    [is_valid |-> FALSE,
     warnings |-> Warnings(start, end, txns),
     calculated_ending_balance |->
         Some(Round2(Replay(IF start = None THEN 0 ELSE Val(start), txns))),
     expected_ending_balance |-> end,
     difference |-> None,
     message |-> Text("cannot_validate_missing_balance", 0)]

\* the early return when a balance is missing
MissingBalanceResult(start, end, txns) ==
    [is_valid |-> FALSE,
     warnings |-> Warnings(start, end, txns),
     calculated_ending_balance |-> None,
     expected_ending_balance |-> end,
     difference |-> None,
     message |-> Text("cannot_validate_missing_balance", 0)]

BankStatementParser_validate_transactions(start, end, txns) ==
    IF start = None \/ end = None
    THEN MissingBalanceResult(start, end, txns)
    ELSE LET calculated == Round2(Replay(Val(start), txns))
             expected   == Round2(Val(end))
             difference == Difference(calculated, expected)
             is_valid   == WithinTolerance(difference)
         IN [is_valid |-> is_valid,
             warnings |-> Warnings(start, end, txns),
             calculated_ending_balance |-> Some(calculated),
             expected_ending_balance |-> Some(expected),
             difference |-> Some(difference),
             message |-> IF is_valid THEN Text("valid", 0)
                         ELSE Text("discrepancy", difference)]

---------------------------------------------------------------------------
(* Inputs of the validator model *)

\* the longest transaction list given to the validator
MaxTxns == 2

\* 100.00, 90.00, 80.00 and 79.996
BalanceValues == {10000 * CentUnits, 9000 * CentUnits, 8000 * CentUnits,
                  8000 * CentUnits - 2}

OptBalances == {None} \cup {Some(b) : b \in BalanceValues}

\* 20.00 and 0.006
AmountValues == {2000 * CentUnits, 3}

DirectionTexts == {"Credit", "Debit", "CREDIT", "Fee"}

TransactionInputs ==
    [date : {"2024-05-01"}, description : {"Grocery Store"},
     direction : {None} \cup {Some(d) : d \in DirectionTexts},
     amount : {None} \cup {Some(a) : a \in AmountValues}]

SeqsUpTo(S, n) == UNION {[1..k -> S] : k \in 0..n}

\* the validator's variables when no call is modelled
ValidatorIdle ==
    /\ starting_balance = None
    /\ ending_balance = None
    /\ transactions = <<>>
    /\ validation = None
    /\ ai_validation = None
    /\ utils_validation = None

\* the selector's variables when no call is modelled
SelectorIdle ==
    /\ results = <<>>
    /\ best_result = None

\* the entry points' variables when no call is modelled
ParseIdle ==
    /\ entry = "none"
    /\ extracted_text = None
    /\ clock_year = 0
    /\ ai_input = None
    /\ utils_input = None
    /\ statement = None

\* the batch's variables when no batch is modelled
BatchIdle ==
    /\ pdf_files = <<>>
    /\ use_ai = FALSE
    /\ max_workers = 0
    /\ futures = <<>>
    /\ batch_results = <<>>
    /\ pc = "idle"
    /\ batch_result = None

\* the aggregation variables when no call is modelled
AggIdle ==
    /\ stat_results = <<>>
    /\ stat_outcome = None
    /\ summary_report = None

\* the date normalizer's variables when no call is modelled
DateIdle ==
    /\ token = <<>>
    /\ context = <<>>
    /\ normalized_date = None

\* the second run's variables when no second run is modelled
RerunIdle ==
    /\ rerun_year = 0
    /\ rerun_statement = None

\* the classifier's variables when no call of it is modelled
DirectionIdle ==
    /\ line_text = <<>>
    /\ credit_flag = FALSE
    /\ debit_flag = FALSE
    /\ parser_direction = None
    /\ utils_direction = None

\* the pattern pass's variables when no scan is modelled
ScanIdle ==
    /\ scan_text = <<>>
    /\ scan_pos = 0
    /\ scan_credit = FALSE
    /\ scan_debit = FALSE
    /\ scan_transactions = <<>>

ValidatorInit ==
    /\ starting_balance \in OptBalances
    /\ ending_balance \in OptBalances
    /\ transactions \in SeqsUpTo(TransactionInputs, MaxTxns)
    /\ validation = None
    /\ ai_validation = None
    /\ utils_validation = None
    /\ SelectorIdle
    /\ ParseIdle
    /\ BatchIdle
    /\ AggIdle
    /\ DateIdle
    /\ RerunIdle
    /\ DirectionIdle
    /\ ScanIdle

\* one call of BankStatementParser._validate_transactions on the drawn
\* arguments
Validate ==
    /\ validation = None
    /\ validation' =
         Some(BankStatementParser_validate_transactions(starting_balance, ending_balance, transactions))
    /\ UNCHANGED <<starting_balance, ending_balance, transactions>>
    /\ UNCHANGED <<ai_validation, utils_validation>>
    /\ UNCHANGED <<selectorVars, parseVars, batchVars>>
    /\ UNCHANGED <<aggVars, dateVars, rerunVars>>
    /\ UNCHANGED <<directionVars, scanVars>>

SpecValidate == ValidatorInit /\ [][Validate]_vars

---------------------------------------------------------------------------
(* utils.validate_transactions: the module-level copy of the validator *)

validate_transactions_warnings(start, end, txns) ==
    LET invalid_transactions ==
            {i \in 1..Len(txns) :
                txns[i].amount = None \/ txns[i].direction = None}
    IN (IF start = None THEN <<Text("no_starting_balance", 0)>> ELSE <<>>)
       \o (IF end = None THEN <<Text("no_ending_balance", 0)>> ELSE <<>>)
       \o (IF txns = <<>> THEN <<Text("no_transactions", 0)>> ELSE <<>>)
       \o (IF invalid_transactions # {}
           THEN <<Text("missing_required_fields",
                       Cardinality(invalid_transactions))>>
           ELSE <<>>)

RECURSIVE validate_transactions_replay(_, _)
validate_transactions_replay(balance, txns) ==
    IF txns = <<>> THEN balance
    ELSE LET t == Head(txns)
             next ==
                IF t.direction = None \/ t.amount = None THEN balance
                ELSE IF Lower(Val(t.direction)) = "credit"
                     THEN balance + Val(t.amount)
                ELSE IF Lower(Val(t.direction)) = "debit"
                     THEN balance - Val(t.amount)
                ELSE balance
         IN validate_transactions_replay(next, Tail(txns))

validate_transactions(start, end, txns) ==
    IF start = None \/ end = None
    THEN [is_valid |-> FALSE,
          warnings |-> validate_transactions_warnings(start, end, txns),
          calculated_ending_balance |-> None,
          expected_ending_balance |-> end,
          difference |-> None,
          message |-> Text("cannot_validate_missing_balance", 0)]
    ELSE LET calculated ==
                Round2(validate_transactions_replay(Val(start), txns))
             expected   == Round2(Val(end))
             difference == calculated - expected
             is_valid   == Abs(difference) < CentUnits
         IN [is_valid |-> is_valid,
             warnings |-> validate_transactions_warnings(start, end, txns),
             calculated_ending_balance |-> Some(calculated),
             expected_ending_balance |-> Some(expected),
             difference |-> Some(difference),
             message |-> IF is_valid THEN Text("valid", 0)
                         ELSE Text("discrepancy", difference)]

---------------------------------------------------------------------------
(* Strategy Selector: utils.select_best_result *)

\* the Statement returned for an empty candidate list
NoResultsStatement ==
    [starting_balance |-> None,
     ending_balance |-> None,
     transactions |-> <<>>,
     validation |-> [is_valid |-> FALSE,
                     warnings |-> <<>>,
                     calculated_ending_balance |-> None,
                     expected_ending_balance |-> None,
                     difference |-> None,
                     message |-> Text("no_parsing_results", 0)],
     error |-> None,
     parsing_method |-> None]

\* mutation of Score: each transaction lowers the score
ScorePenalisingTransactions(result) ==
    (IF result.starting_balance # None THEN 10 ELSE 0)
    + (IF result.ending_balance # None THEN 10 ELSE 0)
    - Len(result.transactions) * 2
    + (IF result.validation.is_valid THEN 20 ELSE 0)

\* the completeness score of one candidate
Score(result) ==
    (IF result.starting_balance # None THEN 10 ELSE 0)
    + (IF result.ending_balance # None THEN 10 ELSE 0)
    + Len(result.transactions) * 2
    + (IF result.validation.is_valid THEN 20 ELSE 0)

\* scored_results: the (score, result) pairs in input order
ScoredResults(candidates) ==
    [i \in 1..Len(candidates) |-> <<Score(candidates[i]), candidates[i]>>]

\* mutation of InsertDescending: an item goes before the items of equal
\* score, as an unstable sort may place it
InsertBeforeEqual(sorted, item) ==
    LET k == Cardinality({i \in 1..Len(sorted) : sorted[i][1] > item[1]})
    IN SubSeq(sorted, 1, k) \o <<item>> \o SubSeq(sorted, k + 1, Len(sorted))

\* list.sort is stable: an item goes after every item already placed whose
\* key is at least its own
InsertDescending(sorted, item) ==
    LET k == Cardinality({i \in 1..Len(sorted) : sorted[i][1] >= item[1]})
    IN SubSeq(sorted, 1, k) \o <<item>> \o SubSeq(sorted, k + 1, Len(sorted))

\* scored_results.sort(key=lambda x: x[0], reverse=True)
RECURSIVE SortDescending(_)
SortDescending(scored) ==
    IF scored = <<>> THEN <<>>
    ELSE InsertDescending(SortDescending(SubSeq(scored, 1, Len(scored) - 1)),
                          scored[Len(scored)])

select_best_result(candidates) ==
    IF candidates = <<>> THEN NoResultsStatement
    ELSE SortDescending(ScoredResults(candidates))[1][2]

---------------------------------------------------------------------------
(* AIBankStatementParser._validate_transactions: the AI parser's copy *)

AI_validate_transactions_warnings(start, end, txns) ==
    LET invalid_transactions ==
            {i \in 1..Len(txns) :
                txns[i].amount = None \/ txns[i].direction = None}
    IN (IF start = None THEN <<Text("no_starting_balance", 0)>> ELSE <<>>)
       \o (IF end = None THEN <<Text("no_ending_balance", 0)>> ELSE <<>>)
       \o (IF txns = <<>> THEN <<Text("no_transactions", 0)>> ELSE <<>>)
       \o (IF invalid_transactions # {}
           THEN <<Text("missing_required_fields",
                       Cardinality(invalid_transactions))>>
           ELSE <<>>)

RECURSIVE AI_validate_transactions_replay(_, _)
AI_validate_transactions_replay(balance, txns) ==
    IF txns = <<>> THEN balance
    ELSE LET t == Head(txns)
             next ==
                IF t.direction = None \/ t.amount = None THEN balance
                ELSE IF Lower(Val(t.direction)) = "credit"
                     THEN balance + Val(t.amount)
                ELSE IF Lower(Val(t.direction)) = "debit"
                     THEN balance - Val(t.amount)
                ELSE balance
         IN AI_validate_transactions_replay(next, Tail(txns))

\* the validator with a tolerance of one cent or less
ValidateWithinOneCent(start, end, txns) ==
    LET result == BankStatementParser_validate_transactions(start, end, txns)
    IN IF result.difference = None THEN result
       ELSE [result EXCEPT
                !.is_valid = Abs(Val(result.difference)) <= CentUnits]

AIBankStatementParser_validate_transactions(start, end, txns) ==
    IF start = None \/ end = None
    THEN [is_valid |-> FALSE,
          warnings |-> AI_validate_transactions_warnings(start, end, txns),
          calculated_ending_balance |-> None,
          expected_ending_balance |-> end,
          difference |-> None,
          message |-> Text("cannot_validate_missing_balance", 0)]
    ELSE LET calculated ==
                Round2(AI_validate_transactions_replay(Val(start), txns))
             expected   == Round2(Val(end))
             difference == calculated - expected
             is_valid   == Abs(difference) < CentUnits
         IN [is_valid |-> is_valid,
             warnings |-> AI_validate_transactions_warnings(start, end, txns),
             calculated_ending_balance |-> Some(calculated),
             expected_ending_balance |-> Some(expected),
             difference |-> Some(difference),
             message |-> IF is_valid THEN Text("valid", 0)
                         ELSE Text("discrepancy", difference)]

---------------------------------------------------------------------------
(* AI path: AIBankStatementParser                                          *)
(*                                                                         *)
(* A JSON value of the AI response is [type, chars, val]: type "none" is   *)
(* null or a missing key, "str" a string (chars), "num" a number (val, in  *)
(* units), "other" a list or an object.  A direction or type field keeps   *)
(* "missing" (the key is absent, so get() gives its default '') apart from *)
(* "null".                                                                 *)

JsonNone == [type |-> "none", chars |-> <<>>, val |-> 0]

JsonStr(chars) == [type |-> "str", chars |-> chars, val |-> 0]

JsonNum(n) == [type |-> "num", chars |-> <<>>, val |-> n]

JsonOther == [type |-> "other", chars |-> <<>>, val |-> 0]

JsonMissing == [type |-> "missing", chars |-> <<>>, val |-> 0]

CurrencyAndComma == {"$", "£", "€", ","}

\* a transaction of a Statement
Transaction(date, description, direction, amount) ==
    [date |-> date, description |-> description,
     direction |-> Some(direction), amount |-> Some(amount)]

\* starting_balance / ending_balance of the response, as a float or None
StandardizeBalance(raw) ==
    IF raw.type = "str"
    THEN ParseFloat(Without(raw.chars, CurrencyAndComma))
    ELSE IF raw.type = "num" THEN Some(raw.val)
    ELSE None

\* 'credit' in text or 'deposit' in text
SaysCredit(text) ==
    \/ Contains(text, <<"c", "r", "e", "d", "i", "t">>)
    \/ Contains(text, <<"d", "e", "p", "o", "s", "i", "t">>)

\* 'debit' in text or 'withdrawal' in text
SaysDebit(text) ==
    \/ Contains(text, <<"d", "e", "b", "i", "t">>)
    \/ Contains(text, <<"w", "i", "t", "h", "d", "r", "a", "w", "a", "l">>)

\* transaction.get(key, '').lower(): AttributeError when the value is no
\* string
LoweredField(raw) ==
    IF raw.type = "missing" THEN Returned(<<>>)
    ELSE IF raw.type = "str" THEN Returned(LowerText(raw.chars))
    ELSE Raised

\* mutation of DirectionFromType: an unknown type leaves the direction
\* text of the response in place
DirectionFromTypeKeepingText(item) ==
    LET type_field == LoweredField(item.type)
    IN IF type_field.raised THEN Raised
       ELSE IF SaysCredit(type_field.result) THEN Returned("Credit")
       ELSE IF SaysDebit(type_field.result) THEN Returned("Debit")
       ELSE Returned("unknown")

\* the inference from the 'type' field, when the direction says nothing
DirectionFromType(item) ==
    LET type_field == LoweredField(item.type)
    IN IF type_field.raised THEN Raised
       ELSE IF SaysCredit(type_field.result) THEN Returned("Credit")
       ELSE IF SaysDebit(type_field.result) THEN Returned("Debit")
       ELSE Returned("Debit")

\* the direction of one transaction of the response
StandardizeDirection(item) ==
    LET direction == LoweredField(item.direction)
    IN IF direction.raised THEN Raised
       ELSE IF SaysCredit(direction.result) THEN Returned("Credit")
       ELSE IF SaysDebit(direction.result) THEN Returned("Debit")
       ELSE DirectionFromType(item)

\* the amount of one transaction of the response: a float, or None when
\* the transaction is to be skipped
StandardizeAmount(raw) ==
    IF raw.type = "str"
    THEN ParseFloat(Without(raw.chars, CurrencyAndComma))
    ELSE IF raw.type = "num" THEN Some(raw.val)
    ELSE None

\* one pass of the loop body: no transaction or one, or the exception
StandardizeTransaction(item) ==
    IF ~item.is_dict THEN Returned(<<>>)
    ELSE LET direction == StandardizeDirection(item)
             amount    == StandardizeAmount(item.amount)
         IN IF direction.raised THEN Raised
            ELSE IF amount = None THEN Returned(<<>>)
            ELSE Returned(<<Transaction(item.date, item.description,
                                        direction.result, Val(amount))>>)

\* the loop over the transactions of the response
RECURSIVE StandardizeTransactions(_)
StandardizeTransactions(items) ==
    IF items = <<>> THEN Returned(<<>>)
    ELSE LET first == StandardizeTransaction(Head(items))
         IN IF first.raised THEN Raised
            ELSE LET rest == StandardizeTransactions(Tail(items))
                 IN IF rest.raised THEN Raised
                    ELSE Returned(first.result \o rest.result)

\* the result of _standardize_ai_response, once the loop over the
\* transactions has run (txns: its outcome)
StandardizedResponse(ai_data, txns) ==
    IF txns.raised THEN Raised
    ELSE Returned([starting_balance |->
                       StandardizeBalance(ai_data.starting_balance),
                   ending_balance |->
                       StandardizeBalance(ai_data.ending_balance),
                   transactions |-> txns.result])

\* _standardize_ai_response: starting_balance, ending_balance and
\* transactions, or the exception
standardize_ai_response(ai_data) ==
    IF ~ai_data.is_dict
    THEN Returned([starting_balance |-> None, ending_balance |-> None,
                   transactions |-> <<>>])
    ELSE StandardizedResponse(ai_data,
             IF ai_data.transactions.type = "list"
             THEN StandardizeTransactions(ai_data.transactions.items)
             ELSE Returned(<<>>))

\* the end of _parse_with_ai: the standardized response with its
\* validation, or the exception of _standardize_ai_response
ValidatedResponse(standard) ==
    IF standard.raised THEN Raised
    ELSE Returned(
           [starting_balance |-> standard.result.starting_balance,
            ending_balance |-> standard.result.ending_balance,
            transactions |-> standard.result.transactions,
            validation |->
                AIBankStatementParser_validate_transactions(
                    standard.result.starting_balance,
                    standard.result.ending_balance,
                    standard.result.transactions),
            error |-> None,
            parsing_method |-> None])

\* _parse_with_ai: the Statement without parsing_method, or the exception
parse_with_ai(input) ==
    IF ~input.has_client THEN Raised
    ELSE IF input.fault # "none" THEN Raised
    ELSE ValidatedResponse(standardize_ai_response(input.ai_data))

\* mutation of AIFailedStatement: the failure is reported as a warning
\* only, the Statement passes for a valid one
AIFailedStatementValid ==
    [starting_balance |-> None,
     ending_balance |-> None,
     transactions |-> <<>>,
     validation |-> [is_valid |-> TRUE,
                     warnings |-> <<Text("ai_parsing_failed", 0)>>,
                     calculated_ending_balance |-> None,
                     expected_ending_balance |-> None,
                     difference |-> None,
                     message |-> Text("ai_parsing_failed", 0)],
     error |-> Some("ai_parsing_failed"),
     parsing_method |-> Some("ai_failed")]

\* the Statement of the except branch of parse_pdf
AIFailedStatement ==
    [starting_balance |-> None,
     ending_balance |-> None,
     transactions |-> <<>>,
     validation |-> [is_valid |-> FALSE,
                     warnings |-> <<Text("ai_parsing_failed", 0)>>,
                     calculated_ending_balance |-> None,
                     expected_ending_balance |-> None,
                     difference |-> None,
                     message |-> Text("ai_parsing_failed", 0)],
     error |-> Some("ai_parsing_failed"),
     parsing_method |-> Some("ai_failed")]

\* mutation of TaggedOrFailed: the Statement of the except branch is
\* tagged like a successful one
TaggedAlways(ai_result) ==
    IF ai_result.raised
    THEN [AIFailedStatement EXCEPT !.parsing_method = Some("ai")]
    ELSE [ai_result.result EXCEPT !.parsing_method = Some("ai")]

\* parse_pdf, once _parse_with_ai has returned or raised
TaggedOrFailed(ai_result) ==
    IF ai_result.raised THEN AIFailedStatement
    ELSE [ai_result.result EXCEPT !.parsing_method = Some("ai")]

AIBankStatementParser_parse_pdf(input) == TaggedOrFailed(parse_with_ai(input))

---------------------------------------------------------------------------
(* Heuristic path: BankStatementParser                                     *)
(*                                                                         *)
(* The extracted text is the sequence of its lines, text.split('\n'),      *)
(* each line given by LineFacts as its characters and what the balance,    *)
(* table and transaction patterns capture in it, tabulated with Python's   *)
(* re from the patterns of the source.  In the lines of the model no match *)
(* spans two lines, a table header ends its line and an end-of-table       *)
(* keyword starts its line; the documents of the model are shorter than    *)
(* the 1000 characters the currency fallbacks look at.  The keyword tests, *)
(* the date shapes and everything done with the captured groups are        *)
(* computed here.                                                          *)

\* the lines a document of the model is made of
LineSet ==
    {"Beginning Balance: $100.00",
     "05/01/2024 Grocery Store Debit $20.00",
     "Ending Balance: $80.00",
     "Deposits and other credits",
     "Withdrawals and other debits",
     "05/02 Payroll 1,500.00",
     "05/03 Refund CR 12.50",
     "Date Description Amount",
     "Total 1,532.50",
     "05-04-2024 05-05-2024 Card Purchase 30.00",
     "31/02/2024 Rent Debit $5.00",
     "Closing Balance 80.00"}

\* what the regular expressions of the parser find in a line: the line's
\* characters, the group captured by each balance pattern, the first and
\* the last amount after a currency symbol, the table headers matched, the
\* date, amount and text between them of a table row, and the groups of
\* each transaction pattern
LineFacts(line) ==
    CASE line = "Beginning Balance: $100.00" ->
        [chars |-> <<"B", "e", "g", "i", "n", "n", "i", "n", "g", " ", "B", "a", "l", "a", "n", "c", "e", ":", " ", "$", "1", "0", "0", ".", "0", "0">>,
         starting |-> <<Some(<<"1", "0", "0", ".", "0", "0">>), None, None, None, None, None, None, Some(<<"0", ".", "0", "0">>), None>>,
         ending |-> <<None, None, None, None, None, None, None>>,
         first_currency |-> Some(<<"1", "0", "0", ".", "0", "0">>),
         last_currency |-> Some(<<"1", "0", "0", ".", "0", "0">>),
         table_headers |-> <<0, 0, 0>>,
         row_date |-> None,
         row_amount |-> Some(<<"1", "0", "0", ".", "0", "0">>),
         row_between |-> None,
         matches |-> <<None, None, None, None, None>>]
      [] line = "05/01/2024 Grocery Store Debit $20.00" ->
        [chars |-> <<"0", "5", "/", "0", "1", "/", "2", "0", "2", "4", " ", "G", "r", "o", "c", "e", "r", "y", " ", "S", "t", "o", "r", "e", " ", "D", "e", "b", "i", "t", " ", "$", "2", "0", ".", "0", "0">>,
         starting |-> <<None, None, None, None, None, None, None, None, None>>,
         ending |-> <<None, None, None, None, None, None, None>>,
         first_currency |-> Some(<<"2", "0", ".", "0", "0">>),
         last_currency |-> Some(<<"2", "0", ".", "0", "0">>),
         table_headers |-> <<0, 0, 0>>,
         row_date |-> Some(<<"0", "5", "/", "0", "1", "/", "2", "0", "2", "4">>),
         row_amount |-> Some(<<"2", "0", ".", "0", "0">>),
         row_between |-> Some("Grocery Store Debit"),
         matches |-> <<Some([groups |-> <<Some([text |-> "05/01/2024", stripped |-> "05/01/2024", chars |-> <<"0", "5", "/", "0", "1", "/", "2", "0", "2", "4">>]), Some([text |-> "Grocery Store", stripped |-> "Grocery Store", chars |-> <<"G", "r", "o", "c", "e", "r", "y", " ", "S", "t", "o", "r", "e">>]), Some([text |-> "Debit", stripped |-> "Debit", chars |-> <<"D", "e", "b", "i", "t">>]), Some([text |-> "20.00", stripped |-> "20.00", chars |-> <<"2", "0", ".", "0", "0">>])>>, chars |-> <<"0", "5", "/", "0", "1", "/", "2", "0", "2", "4", " ", "G", "r", "o", "c", "e", "r", "y", " ", "S", "t", "o", "r", "e", " ", "D", "e", "b", "i", "t", " ", "$", "2", "0", ".", "0", "0">>]), None, None, Some([groups |-> <<Some([text |-> "05/01/2024", stripped |-> "05/01/2024", chars |-> <<"0", "5", "/", "0", "1", "/", "2", "0", "2", "4">>]), Some([text |-> "Grocery Store Debit", stripped |-> "Grocery Store Debit", chars |-> <<"G", "r", "o", "c", "e", "r", "y", " ", "S", "t", "o", "r", "e", " ", "D", "e", "b", "i", "t">>]), Some([text |-> "20.00", stripped |-> "20.00", chars |-> <<"2", "0", ".", "0", "0">>])>>, chars |-> <<"0", "5", "/", "0", "1", "/", "2", "0", "2", "4", " ", "G", "r", "o", "c", "e", "r", "y", " ", "S", "t", "o", "r", "e", " ", "D", "e", "b", "i", "t", " ", "$", "2", "0", ".", "0", "0">>]), None>>]
      [] line = "Ending Balance: $80.00" ->
        [chars |-> <<"E", "n", "d", "i", "n", "g", " ", "B", "a", "l", "a", "n", "c", "e", ":", " ", "$", "8", "0", ".", "0", "0">>,
         starting |-> <<None, None, None, None, None, None, None, None, None>>,
         ending |-> <<Some(<<"8", "0", ".", "0", "0">>), None, None, None, None, None, Some(<<"0", ".", "0", "0">>)>>,
         first_currency |-> Some(<<"8", "0", ".", "0", "0">>),
         last_currency |-> Some(<<"8", "0", ".", "0", "0">>),
         table_headers |-> <<0, 0, 0>>,
         row_date |-> None,
         row_amount |-> Some(<<"8", "0", ".", "0", "0">>),
         row_between |-> None,
         matches |-> <<None, None, None, None, None>>]
      [] line = "Deposits and other credits" ->
        [chars |-> <<"D", "e", "p", "o", "s", "i", "t", "s", " ", "a", "n", "d", " ", "o", "t", "h", "e", "r", " ", "c", "r", "e", "d", "i", "t", "s">>,
         starting |-> <<None, None, None, None, None, None, None, None, None>>,
         ending |-> <<None, None, None, None, None, None, None>>,
         first_currency |-> None,
         last_currency |-> None,
         table_headers |-> <<0, 0, 0>>,
         row_date |-> None,
         row_amount |-> None,
         row_between |-> None,
         matches |-> <<None, None, None, None, None>>]
      [] line = "Withdrawals and other debits" ->
        [chars |-> <<"W", "i", "t", "h", "d", "r", "a", "w", "a", "l", "s", " ", "a", "n", "d", " ", "o", "t", "h", "e", "r", " ", "d", "e", "b", "i", "t", "s">>,
         starting |-> <<None, None, None, None, None, None, None, None, None>>,
         ending |-> <<None, None, None, None, None, None, None>>,
         first_currency |-> None,
         last_currency |-> None,
         table_headers |-> <<0, 0, 0>>,
         row_date |-> None,
         row_amount |-> None,
         row_between |-> None,
         matches |-> <<None, None, None, None, None>>]
      [] line = "05/02 Payroll 1,500.00" ->
        [chars |-> <<"0", "5", "/", "0", "2", " ", "P", "a", "y", "r", "o", "l", "l", " ", "1", ",", "5", "0", "0", ".", "0", "0">>,
         starting |-> <<None, None, None, None, None, None, None, None, None>>,
         ending |-> <<None, None, None, None, None, None, None>>,
         first_currency |-> None,
         last_currency |-> None,
         table_headers |-> <<0, 0, 0>>,
         row_date |-> Some(<<"0", "5", "/", "0", "2">>),
         row_amount |-> Some(<<"1", ",", "5", "0", "0", ".", "0", "0">>),
         row_between |-> Some("Payroll"),
         matches |-> <<None, Some([groups |-> <<Some([text |-> "05/02", stripped |-> "05/02", chars |-> <<"0", "5", "/", "0", "2">>]), Some([text |-> "Payroll", stripped |-> "Payroll", chars |-> <<"P", "a", "y", "r", "o", "l", "l">>]), Some([text |-> "1,500.00", stripped |-> "1,500.00", chars |-> <<"1", ",", "5", "0", "0", ".", "0", "0">>])>>, chars |-> <<"0", "5", "/", "0", "2", " ", "P", "a", "y", "r", "o", "l", "l", " ", "1", ",", "5", "0", "0", ".", "0", "0">>]), None, Some([groups |-> <<Some([text |-> "05/02", stripped |-> "05/02", chars |-> <<"0", "5", "/", "0", "2">>]), Some([text |-> "Payroll", stripped |-> "Payroll", chars |-> <<"P", "a", "y", "r", "o", "l", "l">>]), Some([text |-> "1,500.00", stripped |-> "1,500.00", chars |-> <<"1", ",", "5", "0", "0", ".", "0", "0">>])>>, chars |-> <<"0", "5", "/", "0", "2", " ", "P", "a", "y", "r", "o", "l", "l", " ", "1", ",", "5", "0", "0", ".", "0", "0">>]), None>>]
      [] line = "05/03 Refund CR 12.50" ->
        [chars |-> <<"0", "5", "/", "0", "3", " ", "R", "e", "f", "u", "n", "d", " ", "C", "R", " ", "1", "2", ".", "5", "0">>,
         starting |-> <<None, None, None, None, None, None, None, None, None>>,
         ending |-> <<None, None, None, None, None, None, None>>,
         first_currency |-> None,
         last_currency |-> None,
         table_headers |-> <<0, 0, 0>>,
         row_date |-> Some(<<"0", "5", "/", "0", "3">>),
         row_amount |-> Some(<<"1", "2", ".", "5", "0">>),
         row_between |-> Some("Refund CR"),
         matches |-> <<None, Some([groups |-> <<Some([text |-> "05/03", stripped |-> "05/03", chars |-> <<"0", "5", "/", "0", "3">>]), Some([text |-> "Refund CR", stripped |-> "Refund CR", chars |-> <<"R", "e", "f", "u", "n", "d", " ", "C", "R">>]), Some([text |-> "12.50", stripped |-> "12.50", chars |-> <<"1", "2", ".", "5", "0">>])>>, chars |-> <<"0", "5", "/", "0", "3", " ", "R", "e", "f", "u", "n", "d", " ", "C", "R", " ", "1", "2", ".", "5", "0">>]), Some([groups |-> <<Some([text |-> "05/03", stripped |-> "05/03", chars |-> <<"0", "5", "/", "0", "3">>]), Some([text |-> "Refund", stripped |-> "Refund", chars |-> <<"R", "e", "f", "u", "n", "d">>]), Some([text |-> "CR", stripped |-> "CR", chars |-> <<"C", "R">>]), Some([text |-> "12.50", stripped |-> "12.50", chars |-> <<"1", "2", ".", "5", "0">>])>>, chars |-> <<"0", "5", "/", "0", "3", " ", "R", "e", "f", "u", "n", "d", " ", "C", "R", " ", "1", "2", ".", "5", "0">>]), Some([groups |-> <<Some([text |-> "05/03", stripped |-> "05/03", chars |-> <<"0", "5", "/", "0", "3">>]), Some([text |-> "Refund CR", stripped |-> "Refund CR", chars |-> <<"R", "e", "f", "u", "n", "d", " ", "C", "R">>]), Some([text |-> "12.50", stripped |-> "12.50", chars |-> <<"1", "2", ".", "5", "0">>])>>, chars |-> <<"0", "5", "/", "0", "3", " ", "R", "e", "f", "u", "n", "d", " ", "C", "R", " ", "1", "2", ".", "5", "0">>]), None>>]
      [] line = "Date Description Amount" ->
        [chars |-> <<"D", "a", "t", "e", " ", "D", "e", "s", "c", "r", "i", "p", "t", "i", "o", "n", " ", "A", "m", "o", "u", "n", "t">>,
         starting |-> <<None, None, None, None, None, None, None, None, None>>,
         ending |-> <<None, None, None, None, None, None, None>>,
         first_currency |-> None,
         last_currency |-> None,
         table_headers |-> <<1, 0, 0>>,
         row_date |-> None,
         row_amount |-> None,
         row_between |-> None,
         matches |-> <<None, None, None, None, None>>]
      [] line = "Total 1,532.50" ->
        [chars |-> <<"T", "o", "t", "a", "l", " ", "1", ",", "5", "3", "2", ".", "5", "0">>,
         starting |-> <<None, None, None, None, None, None, None, None, None>>,
         ending |-> <<None, None, None, None, None, None, None>>,
         first_currency |-> None,
         last_currency |-> None,
         table_headers |-> <<0, 0, 0>>,
         row_date |-> None,
         row_amount |-> Some(<<"1", ",", "5", "3", "2", ".", "5", "0">>),
         row_between |-> None,
         matches |-> <<None, None, None, None, None>>]
      [] line = "05-04-2024 05-05-2024 Card Purchase 30.00" ->
        [chars |-> <<"0", "5", "-", "0", "4", "-", "2", "0", "2", "4", " ", "0", "5", "-", "0", "5", "-", "2", "0", "2", "4", " ", "C", "a", "r", "d", " ", "P", "u", "r", "c", "h", "a", "s", "e", " ", "3", "0", ".", "0", "0">>,
         starting |-> <<None, None, None, None, None, None, None, None, None>>,
         ending |-> <<None, None, None, None, None, None, None>>,
         first_currency |-> None,
         last_currency |-> None,
         table_headers |-> <<0, 0, 0>>,
         row_date |-> Some(<<"0", "5", "-", "0", "4", "-", "2", "0", "2", "4">>),
         row_amount |-> Some(<<"3", "0", ".", "0", "0">>),
         row_between |-> Some("05-05-2024 Card Purchase"),
         matches |-> <<None, None, None, Some([groups |-> <<Some([text |-> "05-05-2024", stripped |-> "05-05-2024", chars |-> <<"0", "5", "-", "0", "5", "-", "2", "0", "2", "4">>]), Some([text |-> "Card Purchase", stripped |-> "Card Purchase", chars |-> <<"C", "a", "r", "d", " ", "P", "u", "r", "c", "h", "a", "s", "e">>]), Some([text |-> "30.00", stripped |-> "30.00", chars |-> <<"3", "0", ".", "0", "0">>])>>, chars |-> <<"0", "5", "-", "0", "5", "-", "2", "0", "2", "4", " ", "C", "a", "r", "d", " ", "P", "u", "r", "c", "h", "a", "s", "e", " ", "3", "0", ".", "0", "0">>]), Some([groups |-> <<Some([text |-> "05-04-2024", stripped |-> "05-04-2024", chars |-> <<"0", "5", "-", "0", "4", "-", "2", "0", "2", "4">>]), Some([text |-> "05-05-2024", stripped |-> "05-05-2024", chars |-> <<"0", "5", "-", "0", "5", "-", "2", "0", "2", "4">>]), Some([text |-> "Card Purchase", stripped |-> "Card Purchase", chars |-> <<"C", "a", "r", "d", " ", "P", "u", "r", "c", "h", "a", "s", "e">>]), Some([text |-> "30.00", stripped |-> "30.00", chars |-> <<"3", "0", ".", "0", "0">>])>>, chars |-> <<"0", "5", "-", "0", "4", "-", "2", "0", "2", "4", " ", "0", "5", "-", "0", "5", "-", "2", "0", "2", "4", " ", "C", "a", "r", "d", " ", "P", "u", "r", "c", "h", "a", "s", "e", " ", "3", "0", ".", "0", "0">>])>>]
      [] line = "31/02/2024 Rent Debit $5.00" ->
        [chars |-> <<"3", "1", "/", "0", "2", "/", "2", "0", "2", "4", " ", "R", "e", "n", "t", " ", "D", "e", "b", "i", "t", " ", "$", "5", ".", "0", "0">>,
         starting |-> <<None, None, None, None, None, None, None, None, None>>,
         ending |-> <<None, None, None, None, None, None, None>>,
         first_currency |-> Some(<<"5", ".", "0", "0">>),
         last_currency |-> Some(<<"5", ".", "0", "0">>),
         table_headers |-> <<0, 0, 0>>,
         row_date |-> Some(<<"3", "1", "/", "0", "2", "/", "2", "0", "2", "4">>),
         row_amount |-> Some(<<"5", ".", "0", "0">>),
         row_between |-> Some("Rent Debit"),
         matches |-> <<Some([groups |-> <<Some([text |-> "31/02/2024", stripped |-> "31/02/2024", chars |-> <<"3", "1", "/", "0", "2", "/", "2", "0", "2", "4">>]), Some([text |-> "Rent", stripped |-> "Rent", chars |-> <<"R", "e", "n", "t">>]), Some([text |-> "Debit", stripped |-> "Debit", chars |-> <<"D", "e", "b", "i", "t">>]), Some([text |-> "5.00", stripped |-> "5.00", chars |-> <<"5", ".", "0", "0">>])>>, chars |-> <<"3", "1", "/", "0", "2", "/", "2", "0", "2", "4", " ", "R", "e", "n", "t", " ", "D", "e", "b", "i", "t", " ", "$", "5", ".", "0", "0">>]), None, None, Some([groups |-> <<Some([text |-> "31/02/2024", stripped |-> "31/02/2024", chars |-> <<"3", "1", "/", "0", "2", "/", "2", "0", "2", "4">>]), Some([text |-> "Rent Debit", stripped |-> "Rent Debit", chars |-> <<"R", "e", "n", "t", " ", "D", "e", "b", "i", "t">>]), Some([text |-> "5.00", stripped |-> "5.00", chars |-> <<"5", ".", "0", "0">>])>>, chars |-> <<"3", "1", "/", "0", "2", "/", "2", "0", "2", "4", " ", "R", "e", "n", "t", " ", "D", "e", "b", "i", "t", " ", "$", "5", ".", "0", "0">>]), None>>]
      [] line = "Closing Balance 80.00" ->
        [chars |-> <<"C", "l", "o", "s", "i", "n", "g", " ", "B", "a", "l", "a", "n", "c", "e", " ", "8", "0", ".", "0", "0">>,
         starting |-> <<None, None, None, None, None, None, None, None, None>>,
         ending |-> <<Some(<<"8", "0", ".", "0", "0">>), None, None, None, None, None, Some(<<"0", ".", "0", "0">>)>>,
         first_currency |-> None,
         last_currency |-> None,
         table_headers |-> <<0, 0, 0>>,
         row_date |-> None,
         row_amount |-> Some(<<"8", "0", ".", "0", "0">>),
         row_between |-> None,
         matches |-> <<None, None, None, None, None>>]

\* description[:10]
First10(description) ==
    CASE description = "05-04-2024" ->
        "05-04-2024"
      [] description = "05-05-2024" ->
        "05-05-2024"
      [] description = "05-05-2024 Card Purchase" ->
        "05-05-2024"
      [] description = "05/01/2024" ->
        "05/01/2024"
      [] description = "05/02" ->
        "05/02"
      [] description = "05/03" ->
        "05/03"
      [] description = "1,500.00" ->
        "1,500.00"
      [] description = "12.50" ->
        "12.50"
      [] description = "20.00" ->
        "20.00"
      [] description = "30.00" ->
        "30.00"
      [] description = "31/02/2024" ->
        "31/02/2024"
      [] description = "5.00" ->
        "5.00"
      [] description = "CR" ->
        "CR"
      [] description = "Card Purchase" ->
        "Card Purch"
      [] description = "Debit" ->
        "Debit"
      [] description = "Grocery Store" ->
        "Grocery St"
      [] description = "Grocery Store Debit" ->
        "Grocery St"
      [] description = "Payroll" ->
        "Payroll"
      [] description = "Refund" ->
        "Refund"
      [] description = "Refund CR" ->
        "Refund CR"
      [] description = "Rent" ->
        "Rent"
      [] description = "Rent Debit" ->
        "Rent Debit"

\* the first and the last present value of a sequence of optional values
FirstSome(options) ==
    LET I == {i \in 1..Len(options) : options[i] # None}
    IN IF I = {} THEN None
       ELSE options[CHOOSE i \in I : \A j \in I : i <= j]

LastSome(options) ==
    LET I == {i \in 1..Len(options) : options[i] # None}
    IN IF I = {} THEN None
       ELSE options[CHOOSE i \in I : \A j \in I : i >= j]

\* any(word in chars for word in words)
ContainsAny(chars, words) ==
    \E k \in 1..Len(words) : Contains(chars, words[k])

\* float(group.replace(',', ''))
FloatWithoutCommas(chars) == ParseFloat(Without(chars, {","}))

\* the capture of the last pattern that matches
LastConverting(captures) ==
    IF LastSome(captures) = None THEN None
    ELSE FloatWithoutCommas(Val(LastSome(captures)))

\* the loop over the balance patterns: the capture of the first pattern
\* that matches and converts
RECURSIVE FirstConverting(_)
FirstConverting(captures) ==
    IF captures = <<>> THEN None
    ELSE IF /\ Head(captures) # None
            /\ FloatWithoutCommas(Val(Head(captures))) # None
         THEN FloatWithoutCommas(Val(Head(captures)))
         ELSE FirstConverting(Tail(captures))

starting_balance_patterns == 1..9

ending_balance_patterns == 1..7

BankStatementParser_extract_starting_balance(text) ==
    LET Search(k) ==
            FirstSome([i \in 1..Len(text) |-> text[i].starting[k]])
        matched == FirstConverting([k \in starting_balance_patterns |-> Search(k)])
        first_balance_match ==
            FirstSome([i \in 1..Len(text) |-> text[i].first_currency])
    IN IF matched # None THEN matched
       ELSE IF first_balance_match # None
            THEN FloatWithoutCommas(Val(first_balance_match))
            ELSE None

BankStatementParser_extract_ending_balance(text) ==
    LET Search(k) ==
            FirstSome([i \in 1..Len(text) |-> text[i].ending[k]])
        matched == FirstConverting([k \in ending_balance_patterns |-> Search(k)])
        last_balance_matches ==
            LastSome([i \in 1..Len(text) |-> text[i].last_currency])
    IN IF matched # None THEN matched
       ELSE IF last_balance_matches # None
            THEN FloatWithoutCommas(Val(last_balance_matches))
            ELSE None

---------------------------------------------------------------------------
(* Date Normalizer: BankStatementParser._parse_date *)

DigitSet == {DigitChars[i] : i \in 1..10}

\* the pieces of a date shape: \d{min,max} and a separator
Digits(min, max) == [set |-> DigitSet, min |-> min, max |-> max]

Sep(c) == [set |-> {c}, min |-> 1, max |-> 1]

\* whether the shape matches chars from position pos on
RECURSIVE MatchesAt(_, _, _)
MatchesAt(chars, pos, shape) ==
    IF shape = <<>> THEN TRUE
    ELSE LET e == Head(shape)
         IN \E n \in e.min..e.max :
                /\ pos + n - 1 <= Len(chars)
                /\ \A i \in pos..(pos + n - 1) : chars[i] \in e.set
                /\ MatchesAt(chars, pos + n, Tail(shape))

\* re.match(shape, chars): the shape matches a prefix of chars
ReMatch(shape, chars) == MatchesAt(chars, 1, shape)

\* chars.split(sep)
RECURSIVE Split(_, _)
Split(chars, sep) ==
    LET I == {i \in 1..Len(chars) : chars[i] = sep}
    IN IF I = {} THEN <<chars>>
       ELSE LET i == CHOOSE j \in I : \A k \in I : j <= k
            IN <<SubSeq(chars, 1, i - 1)>>
               \o Split(SubSeq(chars, i + 1, Len(chars)), sep)

\* str(n) for a natural number
RECURSIVE IntText(_)
IntText(n) ==
    IF n < 10 THEN <<DigitChars[n + 1]>>
    ELSE IntText(n \div 10) \o <<DigitChars[(n % 10) + 1]>>

IsLeapYear(year) ==
    year % 4 = 0 /\ (year % 100 # 0 \/ year % 400 = 0)

DaysInMonth(year, month) ==
    IF month = 2 THEN (IF IsLeapYear(year) THEN 29 ELSE 28)
    ELSE IF month \in {4, 6, 9, 11} THEN 30
    ELSE 31

\* datetime.strptime(chars, format), the format being the three directives
\* (of "d", "m", "Y") separated by sep: the date, or None for ValueError
Strptime(chars, directives, sep) ==
    LET fields == Split(chars, sep)
        AllDigits(f) == f # <<>> /\ \A i \in 1..Len(f) : IsDigit(f[i])
        Field(d) == fields[CHOOSE i \in 1..3 : directives[i] = d]
        year  == DigitsValue(Field("Y"))
        month == DigitsValue(Field("m"))
        day   == DigitsValue(Field("d"))
    IN IF /\ Len(fields) = 3
          /\ \A i \in 1..3 : AllDigits(fields[i])
          /\ Len(Field("Y")) = 4
          /\ Len(Field("m")) \in 1..2
          /\ Len(Field("d")) \in 1..2
          /\ year >= 1
          /\ month \in 1..12
          /\ day \in 1..DaysInMonth(year, month)
       THEN Some([year |-> year, month |-> month, day |-> day])
       ELSE None

\* a number below 100 on two digits
TwoDigits(n) == <<DigitChars[(n \div 10) + 1], DigitChars[(n % 10) + 1]>>

\* date_obj.strftime('%Y-%m-%d'): %Y of the C library writes the year
\* without leading zeros, %m and %d write two digits
Strftime(date) ==
    IntText(date.year) \o <<"-">> \o TwoDigits(date.month)
    \o <<"-">> \o TwoDigits(date.day)

\* the text joined again: the position, from 0, where line i starts
RECURSIVE LineStart(_, _)
LineStart(text, i) ==
    IF i = 1 THEN 0
    ELSE LineStart(text, i - 1) + Len(text[i - 1].chars) + 1

\* mutation of YearMatch: no year is looked for in the context
YearMatchIgnoringContext(text) == None

\* re.search(r'\d{4}', context_text[:200]): the year written by the first
\* four digits in a row that lie within the first 200 characters
YearMatch(text) ==
    LET FirstIn(i) ==
            LET chars == text[i].chars
                I == {p \in 1..(Len(chars) - 3) :
                        /\ \A q \in p..(p + 3) : IsDigit(chars[q])
                        /\ LineStart(text, i) + p + 3 <= 200}
            IN IF I = {} THEN None
               ELSE LET p == CHOOSE j \in I : \A k \in I : j <= k
                    IN Some(DigitsValue(SubSeq(chars, p, p + 3)))
    IN FirstSome([i \in 1..Len(text) |-> FirstIn(i)])

\* a call of strptime: the text, the directives of the format and their
\* separator
DateFormat(chars, directives, sep) ==
    [chars |-> chars, directives |-> directives, sep |-> sep]

\* mutation of BankStatementParser_parse_date: a token of two digits, two
\* digits and four digits is read with the month first
BankStatementParser_parse_date_month_first(date_str, context_text, now_year) ==
    LET attempt ==
            IF ReMatch(<<Digits(2, 2), Sep("/"), Digits(2, 2), Sep("/"),
                         Digits(4, 4)>>, date_str)
            THEN Some(DateFormat(date_str, <<"m", "d", "Y">>, "/"))
            ELSE IF ReMatch(<<Digits(1, 2), Sep("/"), Digits(1, 2), Sep("/"),
                              Digits(4, 4)>>, date_str)
            THEN Some(DateFormat(date_str, <<"m", "d", "Y">>, "/"))
            ELSE IF ReMatch(<<Digits(1, 2), Sep("/"), Digits(1, 2)>>, date_str)
            THEN LET year_match == YearMatch(context_text)
                     year == IF year_match = None THEN now_year
                             ELSE Val(year_match)
                 IN Some(DateFormat(date_str \o <<"/">> \o IntText(year),
                                    <<"m", "d", "Y">>, "/"))
            ELSE IF ReMatch(<<Digits(1, 2), Sep("-"), Digits(1, 2), Sep("-"),
                              Digits(4, 4)>>, date_str)
            THEN Some(DateFormat(date_str, <<"d", "m", "Y">>, "-"))
            ELSE IF ReMatch(<<Digits(4, 4), Sep("-"), Digits(1, 2), Sep("-"),
                              Digits(1, 2)>>, date_str)
            THEN Some(DateFormat(date_str, <<"Y", "m", "d">>, "-"))
            ELSE None
    IN IF attempt = None THEN date_str
       ELSE LET date_obj == Strptime(Val(attempt).chars,
                                     Val(attempt).directives, Val(attempt).sep)
            IN IF date_obj = None THEN date_str
               ELSE Strftime(Val(date_obj))

\* _parse_date: the date in YYYY-MM-DD format, or date_str
BankStatementParser_parse_date(date_str, context_text, now_year) ==
    LET attempt ==
            IF ReMatch(<<Digits(2, 2), Sep("/"), Digits(2, 2), Sep("/"),
                         Digits(4, 4)>>, date_str)
            THEN Some(DateFormat(date_str, <<"d", "m", "Y">>, "/"))
            ELSE IF ReMatch(<<Digits(1, 2), Sep("/"), Digits(1, 2), Sep("/"),
                              Digits(4, 4)>>, date_str)
            THEN Some(DateFormat(date_str, <<"m", "d", "Y">>, "/"))
            ELSE IF ReMatch(<<Digits(1, 2), Sep("/"), Digits(1, 2)>>, date_str)
            THEN LET year_match == YearMatch(context_text)
                     year == IF year_match = None THEN now_year
                             ELSE Val(year_match)
                 IN Some(DateFormat(date_str \o <<"/">> \o IntText(year),
                                    <<"m", "d", "Y">>, "/"))
            ELSE IF ReMatch(<<Digits(1, 2), Sep("-"), Digits(1, 2), Sep("-"),
                              Digits(4, 4)>>, date_str)
            THEN Some(DateFormat(date_str, <<"d", "m", "Y">>, "-"))
            ELSE IF ReMatch(<<Digits(4, 4), Sep("-"), Digits(1, 2), Sep("-"),
                              Digits(1, 2)>>, date_str)
            THEN Some(DateFormat(date_str, <<"Y", "m", "d">>, "-"))
            ELSE None
    IN IF attempt = None THEN date_str
       ELSE LET date_obj == Strptime(Val(attempt).chars,
                                     Val(attempt).directives, Val(attempt).sep)
            IN IF date_obj = None THEN date_str
               ELSE Strftime(Val(date_obj))

---------------------------------------------------------------------------
(* Direction Classifier: BankStatementParser._determine_transaction_direction *)

credit_indicators ==
    <<<<"c", "r", "e", "d", "i", "t">>, <<"d", "e", "p", "o", "s", "i", "t">>, <<"i", "n", "t", "e", "r", "e", "s", "t">>, <<"r", "e", "f", "u", "n", "d">>, <<"t", "r", "a", "n", "s", "f", "e", "r", " ", "i", "n">>,
      <<"s", "a", "l", "a", "r", "y">>, <<"i", "n", "c", "o", "m", "e">>, <<"p", "a", "y", "m", "e", "n", "t", " ", "r", "e", "c", "e", "i", "v", "e", "d">>>>

debit_indicators ==
    <<<<"d", "e", "b", "i", "t">>, <<"w", "i", "t", "h", "d", "r", "a", "w", "a", "l">>, <<"p", "a", "y", "m", "e", "n", "t">>, <<"p", "u", "r", "c", "h", "a", "s", "e">>, <<"f", "e", "e">>,
      <<"c", "h", "a", "r", "g", "e">>, <<"t", "r", "a", "n", "s", "f", "e", "r", " ", "o", "u", "t">>, <<"c", "h", "e", "c", "k">>>>

\* \w
IsWordChar(c) ==
    \/ IsDigit(c)
    \/ c = "_"
    \/ \E i \in 1..26 : UpperLetters[i] = c \/ LowerLetters[i] = c

\* re.search(r'\bword\b', chars)
ContainsWord(chars, word) ==
    \E i \in 1..(Len(chars) - Len(word) + 1) :
        /\ SubSeq(chars, i, i + Len(word) - 1) = word
        /\ i = 1 \/ ~IsWordChar(chars[i - 1])
        /\ i + Len(word) > Len(chars) \/ ~IsWordChar(chars[i + Len(word)])

\* \s
IsSpace(c) == c \in {" ", "\t"}

\* re.search(sign + r'\s*\d', chars)
SignBeforeDigit(chars, sign) ==
    \E i \in 1..Len(chars) : \E j \in (i + 1)..Len(chars) :
        /\ chars[i] = sign
        /\ IsDigit(chars[j])
        /\ \A k \in (i + 1)..(j - 1) : IsSpace(chars[k])

\* mutation of BankStatementParser_determine_transaction_direction: the
\* CR, DR and sign tests come before the deposit phrases
BankStatementParser_direction_markers_first(transaction_text, credit_section, debit_section) ==
    LET lower_text == LowerText(transaction_text)
    IN IF credit_section THEN "Credit"
       ELSE IF debit_section THEN "Debit"
       ELSE IF \/ ContainsWord(transaction_text, <<"C", "R">>)
               \/ SignBeforeDigit(transaction_text, "+")
            THEN "Credit"
       ELSE IF \/ ContainsWord(transaction_text, <<"D", "R">>)
               \/ SignBeforeDigit(transaction_text, "-")
            THEN "Debit"
       ELSE IF Contains(lower_text, <<"d", "e", "p", "o", "s", "i", "t", " ", "m", "a", "d", "e", " ", "i", "n", " ", "a", " ", "b", "r", "a", "n", "c", "h", "/", "s", "t", "o", "r", "e">>)
            THEN "Credit"
       ELSE IF ContainsAny(lower_text, <<<<"d", "e", "p", "o", "s", "i", "t">>, <<"b", "a", "n", "k", "c", "a", "r", "d">>, <<"m", "t", "o", "t", " ", "d", "e", "p">>>>)
            THEN "Credit"
       ELSE IF ContainsAny(lower_text, credit_indicators) THEN "Credit"
       ELSE IF ContainsAny(lower_text, debit_indicators) THEN "Debit"
       ELSE IF ContainsAny(lower_text, <<<<"p", "u", "r", "c", "h", "a", "s", "e">>, <<"p", "a", "y", "m", "e", "n", "t">>, <<"w", "i", "t", "h", "d", "r", "a", "w", "a", "l">>,
                                         <<"f", "e", "e">>, <<"c", "h", "a", "r", "g", "e">>>>)
            THEN "Debit"
       ELSE "Debit"

\* _determine_transaction_direction: "Credit" or "Debit"
BankStatementParser_determine_transaction_direction(transaction_text, credit_section, debit_section) ==
    LET lower_text == LowerText(transaction_text)
    IN IF credit_section THEN "Credit"
       ELSE IF debit_section THEN "Debit"
       ELSE IF Contains(lower_text, <<"d", "e", "p", "o", "s", "i", "t", " ", "m", "a", "d", "e", " ", "i", "n", " ", "a", " ", "b", "r", "a", "n", "c", "h", "/", "s", "t", "o", "r", "e">>)
            THEN "Credit"
       ELSE IF ContainsAny(lower_text, <<<<"d", "e", "p", "o", "s", "i", "t">>, <<"b", "a", "n", "k", "c", "a", "r", "d">>, <<"m", "t", "o", "t", " ", "d", "e", "p">>>>)
            THEN "Credit"
       ELSE IF \/ ContainsWord(transaction_text, <<"C", "R">>)
               \/ SignBeforeDigit(transaction_text, "+")
            THEN "Credit"
       ELSE IF \/ ContainsWord(transaction_text, <<"D", "R">>)
               \/ SignBeforeDigit(transaction_text, "-")
            THEN "Debit"
       ELSE IF ContainsAny(lower_text, credit_indicators) THEN "Credit"
       ELSE IF ContainsAny(lower_text, debit_indicators) THEN "Debit"
       ELSE IF ContainsAny(lower_text, <<<<"p", "u", "r", "c", "h", "a", "s", "e">>, <<"p", "a", "y", "m", "e", "n", "t">>, <<"w", "i", "t", "h", "d", "r", "a", "w", "a", "l">>,
                                         <<"f", "e", "e">>, <<"c", "h", "a", "r", "g", "e">>>>)
            THEN "Debit"
       ELSE "Debit"

---------------------------------------------------------------------------
(* Table pass: BankStatementParser._extract_table_transactions *)

\* a description taken from the text, and the one made up from the date
Description(text) == [text |-> text, on |-> <<>>]

TransactionOn(date_str) == [text |-> "Transaction on ", on |-> date_str]

\* the sequences of a sequence of sequences, joined
RECURSIVE Flatten(_)
Flatten(seqs) ==
    IF seqs = <<>> THEN <<>> ELSE Head(seqs) \o Flatten(Tail(seqs))

table_header_patterns == 1..3

\* re.search(r'(Balance brought forward|Closing Balance|Total|Summary)',
\* line, re.IGNORECASE)
EndsTable(line) ==
    ContainsAny(LowerText(line.chars),
                <<<<"b", "a", "l", "a", "n", "c", "e", " ", "b", "r", "o", "u", "g", "h", "t", " ", "f", "o", "r", "w", "a", "r", "d">>, <<"c", "l", "o", "s", "i", "n", "g", " ", "b", "a", "l", "a", "n", "c", "e">>,
                  <<"t", "o", "t", "a", "l">>, <<"s", "u", "m", "m", "a", "r", "y">>>>)

\* not line.strip() or re.search(r'(Date|Description|Amount|Balance|
\* Reference)', line, re.IGNORECASE)
SkippedRow(line) ==
    \/ \A i \in 1..Len(line.chars) : IsSpace(line.chars[i])
    \/ ContainsAny(LowerText(line.chars),
                   <<<<"d", "a", "t", "e">>, <<"d", "e", "s", "c", "r", "i", "p", "t", "i", "o", "n">>, <<"a", "m", "o", "u", "n", "t">>, <<"b", "a", "l", "a", "n", "c", "e">>,
                     <<"r", "e", "f", "e", "r", "e", "n", "c", "e">>>>)

\* table_sections: for each header pattern in turn and each header it
\* matches, the lines from the header to the end of the table
TableSections(text) ==
    LET SectionAfter(i) ==
            LET E == {j \in (i + 1)..Len(text) : EndsTable(text[j])}
                last == IF E = {} THEN Len(text)
                        ELSE (CHOOSE j \in E : \A k \in E : j <= k) - 1
            IN SubSeq(text, i + 1, last)
        OfPattern(p) ==
            LET IsHeader(i) == text[i].table_headers[p] > 0
                headers == SelectSeq([i \in 1..Len(text) |-> i], IsHeader)
            IN [k \in 1..Len(headers) |-> SectionAfter(headers[k])]
    IN Flatten([p \in table_header_patterns |-> OfPattern(p)])

\* one line of a table section: no transaction or one.  The amount text is
\* digits and commas, a point and two digits, so float() converts it.
TableRow(line, text, now_year) ==
    LET facts == line
    IN IF SkippedRow(line) THEN <<>>
       ELSE IF facts.row_date = None THEN <<>>
       ELSE IF facts.row_amount = None THEN <<>>
       ELSE LET date_str == Val(facts.row_date)
                amount == Val(FloatWithoutCommas(Val(facts.row_amount)))
                description ==
                    IF facts.row_between # None
                    THEN Description(Val(facts.row_between))
                    ELSE TransactionOn(date_str)
                direction ==
                    BankStatementParser_determine_transaction_direction(facts.chars, FALSE, FALSE)
                formatted_date ==
                    BankStatementParser_parse_date(date_str, text, now_year)
            IN <<Transaction(formatted_date, description, direction, amount)>>

BankStatementParser_extract_table_transactions(text, now_year) ==
    LET sections == TableSections(text)
        Rows(section) ==
            Flatten([i \in 1..Len(section) |-> TableRow(section[i], text, now_year)])
    IN Flatten([k \in 1..Len(sections) |-> Rows(sections[k])])

---------------------------------------------------------------------------
(* Pattern pass: BankStatementParser._extract_pattern_transactions *)

transaction_patterns == 1..5

\* re.search(r"(Deposits|Credits|Money In|Incoming|Income)", line,
\* re.IGNORECASE)
IsCreditHeader(line) ==
    ContainsAny(LowerText(line.chars),
                <<<<"d", "e", "p", "o", "s", "i", "t", "s">>, <<"c", "r", "e", "d", "i", "t", "s">>, <<"m", "o", "n", "e", "y", " ", "i", "n">>, <<"i", "n", "c", "o", "m", "i", "n", "g">>,
                  <<"i", "n", "c", "o", "m", "e">>>>)

\* re.search(r"(Withdrawals|Debits|Money Out|Outgoing|Expenses)", line,
\* re.IGNORECASE)
IsDebitHeader(line) ==
    ContainsAny(LowerText(line.chars),
                <<<<"w", "i", "t", "h", "d", "r", "a", "w", "a", "l", "s">>, <<"d", "e", "b", "i", "t", "s">>, <<"m", "o", "n", "e", "y", " ", "o", "u", "t">>, <<"o", "u", "t", "g", "o", "i", "n", "g">>,
                  <<"e", "x", "p", "e", "n", "s", "e", "s">>>>)

\* group.strip() if group else "Unknown"
StrippedOrUnknown(group) ==
    IF group = None \/ Val(group).text = "" THEN Description("Unknown")
    ELSE Description(Val(group).stripped)

\* re.sub(r'[^\d.,]', '', amount_str.replace(',', ''))
CleanAmount(chars) ==
    LET Kept(c) == IsDigit(c) \/ c \in {".", ","}
    IN SelectSeq(Without(chars, {","}), Kept)

\* one match of a transaction pattern: no transaction or one
PatternTransaction(match, credit_section, debit_section, text, now_year) ==
    LET groups == match.groups
        date_str == Val(groups[1]).chars
        classified ==
            BankStatementParser_determine_transaction_direction(match.chars, credit_section, debit_section)
        second_is_date ==
            /\ groups[2] # None
            /\ Val(groups[2]).text # ""
            /\ ReMatch(<<Digits(1, 2), [set |-> {"/", "-"}, min |-> 1, max |-> 1],
                         Digits(1, 2)>>, Val(groups[2]).chars)
        direction_indicator ==
            IF groups[3] # None THEN Val(groups[3]).text ELSE ""
        parts ==
            IF Len(groups) >= 4
            THEN IF second_is_date
                 THEN [description |-> StrippedOrUnknown(groups[3]),
                       amount_str |-> Val(groups[4]).chars,
                       direction |-> classified]
                 ELSE [description |-> StrippedOrUnknown(groups[2]),
                       amount_str |-> Val(groups[4]).chars,
                       direction |->
                           IF direction_indicator \in {"Credit", "Debit", "CR", "DR"}
                           THEN (IF direction_indicator \in {"Credit", "CR"}
                                 THEN "Credit" ELSE "Debit")
                           ELSE classified]
            ELSE IF Len(groups) = 3
            THEN [description |-> StrippedOrUnknown(groups[2]),
                  amount_str |-> Val(groups[3]).chars,
                  direction |-> classified]
            ELSE [description |-> TransactionOn(date_str),
                  amount_str |-> Val(groups[2]).chars,
                  direction |-> classified]
        amount == ParseFloat(CleanAmount(parts.amount_str))
    IN IF Len(groups) < 2 THEN <<>>
       ELSE IF amount = None THEN <<>>
       ELSE <<Transaction(BankStatementParser_parse_date(date_str, text, now_year),
                          parts.description, parts.direction, Val(amount))>>

\* the transactions of line i: one for every pattern that matches it
LineTransactions(text, i, credit_section, debit_section, now_year) ==
    LET matches == text[i].matches
        OfPattern(p) ==
            IF matches[p] = None THEN <<>>
            ELSE PatternTransaction(Val(matches[p]), credit_section,
                                    debit_section, text, now_year)
    IN Flatten([p \in transaction_patterns |-> OfPattern(p)])

\* the loop over the lines from line i on, the section flags as they stand
RECURSIVE PatternLines(_, _, _, _, _)
PatternLines(text, i, credit_section, debit_section, now_year) ==
    IF i > Len(text) THEN <<>>
    ELSE IF IsCreditHeader(text[i])
         THEN PatternLines(text, i + 1, TRUE, FALSE, now_year)
    ELSE IF IsDebitHeader(text[i])
         THEN PatternLines(text, i + 1, FALSE, TRUE, now_year)
    ELSE LineTransactions(text, i, credit_section, debit_section, now_year)
         \o PatternLines(text, i + 1, credit_section, debit_section, now_year)

BankStatementParser_extract_pattern_transactions(text, now_year) ==
    PatternLines(text, 1, FALSE, FALSE, now_year)

---------------------------------------------------------------------------
(* BankStatementParser.parse_pdf *)

\* t.get('description', '')[:10]
DescriptionFirst10(description) ==
    IF description.on # <<>> THEN "Transactio"
    ELSE First10(description.text)

\* the signature of a transaction: its date, amount and description[:10]
Signature(t) == <<t.date, Val(t.amount), DescriptionFirst10(t.description)>>

\* the pattern transactions whose signature no table transaction has
MergeAgainstTable(txns, pattern_transactions) ==
    LET InTable(t) == \E i \in 1..Len(txns) : Signature(txns[i]) = Signature(t)
        New(t) == ~InTable(t)
    IN txns \o SelectSeq(pattern_transactions, New)

\* the pattern transactions whose signature is new, appended in turn
RECURSIVE MergeTransactions(_, _)
MergeTransactions(txns, pattern_transactions) ==
    IF pattern_transactions = <<>> THEN txns
    ELSE LET t == Head(pattern_transactions)
         IN IF \E i \in 1..Len(txns) : Signature(txns[i]) = Signature(t)
            THEN MergeTransactions(txns, Tail(pattern_transactions))
            ELSE MergeTransactions(Append(txns, t), Tail(pattern_transactions))

\* the Statement of the except branch of parse_pdf
ErrorStatement ==
    [starting_balance |-> None,
     ending_balance |-> None,
     transactions |-> <<>>,
     validation |-> [is_valid |-> FALSE,
                     warnings |-> None,
                     calculated_ending_balance |-> None,
                     expected_ending_balance |-> None,
                     difference |-> None,
                     message |-> Text("error_extracting_pdf_data", 0)],
     error |-> Some("error_extracting_pdf_data"),
     parsing_method |-> None]

\* the Statement of the try branch, once the balances and the transactions
\* are extracted
ParsedStatement(start, end, txns) ==
    [starting_balance |-> start,
     ending_balance |-> end,
     transactions |-> txns,
     validation |-> BankStatementParser_validate_transactions(start, end, txns),
     error |-> None,
     parsing_method |-> None]

\* the try branch of parse_pdf on the extracted text
ParseText(text, now_year) ==
    ParsedStatement(
        BankStatementParser_extract_starting_balance(text),
        BankStatementParser_extract_ending_balance(text),
        MergeTransactions(
            BankStatementParser_extract_table_transactions(text, now_year),
            BankStatementParser_extract_pattern_transactions(text, now_year)))

\* pdf is what _extract_text_from_pdf does with the file: the lines of the
\* text, or None when it raises; now_year is datetime.now().year
BankStatementParser_parse_pdf(pdf, now_year) ==
    IF pdf = None THEN ErrorStatement
    ELSE ParseText([i \in 1..Len(Val(pdf)) |-> LineFacts(Val(pdf)[i])],
                   now_year)

---------------------------------------------------------------------------
(* Inputs of the selector model *)

\* the longest candidate list given to the selector
MaxCandidates == 3

\* the transaction lists of the candidates: none, one Debit of 20.00, and
\* that Debit followed by a Credit of 0.006
CandidateTransactions ==
    LET debit  == [date |-> "2024-05-01", description |-> "Grocery Store",
                   direction |-> Some("Debit"),
                   amount |-> Some(2000 * CentUnits)]
        credit == [date |-> "2024-05-02", description |-> "Interest",
                   direction |-> Some("Credit"), amount |-> Some(3)]
    IN {<<>>, <<debit>>, <<debit, credit>>}

\* a candidate as the whole-document strategies of utils.py build it
Candidate(start, end, txns) ==
    [starting_balance |-> start,
     ending_balance |-> end,
     transactions |-> txns,
     validation |-> validate_transactions(start, end, txns),
     error |-> None,
     parsing_method |-> None]

Candidates ==
    {Candidate(start, end, txns) :
        start \in {None, Some(10000 * CentUnits)},
        end \in {None, Some(8000 * CentUnits), Some(9000 * CentUnits)},
        txns \in CandidateTransactions}

SelectorInit ==
    /\ results \in SeqsUpTo(Candidates, MaxCandidates)
    /\ best_result = None
    /\ ValidatorIdle
    /\ ParseIdle
    /\ BatchIdle
    /\ AggIdle
    /\ DateIdle
    /\ RerunIdle
    /\ DirectionIdle
    /\ ScanIdle

\* one call of select_best_result on the drawn candidates
SelectBestResult ==
    /\ best_result = None
    /\ best_result' = Some(select_best_result(results))
    /\ UNCHANGED results
    /\ UNCHANGED <<validatorVars, parseVars, batchVars>>
    /\ UNCHANGED <<aggVars, dateVars, rerunVars>>
    /\ UNCHANGED <<directionVars, scanVars>>

SpecSelect == SelectorInit /\ [][SelectBestResult]_vars

---------------------------------------------------------------------------
(* utils.extract_transactions_from_pdf                                     *)
(*                                                                         *)
(* The three whole-document strategies (parse_wells_fargo_statement,       *)
(* parse_tabular_statement, parse_generic_statement) are not modelled      *)
(* line by line: what each returns is an input, a candidate validated by   *)
(* utils.validate_transactions.                                            *)

\* the Statement of the except branch of extract_transactions_from_pdf
ExtractErrorStatement ==
    [starting_balance |-> None,
     ending_balance |-> None,
     transactions |-> <<>>,
     validation |-> [is_valid |-> FALSE,
                     warnings |-> None,
                     calculated_ending_balance |-> None,
                     expected_ending_balance |-> None,
                     difference |-> None,
                     message |-> Text("error_extracting_pdf_data", 0)],
     error |-> Some("error_extracting_pdf_data"),
     parsing_method |-> None]

\* input.raises: reading the file or a strategy raises; input.wells_fargo:
\* "Wells Fargo" in text
extract_transactions_from_pdf(input) ==
    IF input.raises THEN ExtractErrorStatement
    ELSE select_best_result(
             (IF input.wells_fargo THEN <<input.wells_fargo_statement>>
              ELSE <<>>)
             \o <<input.tabular_statement, input.generic_statement>>)

---------------------------------------------------------------------------
(* Inputs of the entry points *)

\* the most lines a document has
MaxLines == 3

\* the most transactions an AI response lists
MaxAIItems == 2

\* what _extract_text_from_pdf gives: the text, or None when it raises
ExtractedTexts == {None} \cup {Some(text) : text \in SeqsUpTo(LineSet, MaxLines)}

\* datetime.now().year
ClockYears == {2025, 2026}

\* the amount of a transaction of the response: "$20.00", "-20.00", 0.006,
\* "n/a" and null
AIAmounts ==
    {JsonStr(<<"$", "2", "0", ".", "0", "0">>), JsonStr(<<"-", "2", "0", ".", "0", "0">>), JsonNum(3),
     JsonStr(<<"n", "/", "a">>), JsonNone}

\* its direction and type fields: a direction that says Credit, one that
\* says Debit, a null direction, and a direction that says nothing or is
\* missing, with a type that is missing, says Credit, says nothing or is
\* null
AIDirectionsAndTypes ==
    {<<direction, JsonMissing>> :
        direction \in {JsonStr(<<"C", "R", "E", "D", "I", "T">>),
                       JsonStr(<<"W", "i", "t", "h", "d", "r", "a", "w", "a", "l">>), JsonNone}}
    \cup {<<direction, type>> :
            direction \in {JsonStr(<<"f", "e", "e">>), JsonMissing},
            type \in {JsonMissing, JsonStr(<<"D", "e", "p", "o", "s", "i", "t">>),
                      JsonStr(<<"t", "r", "a", "n", "s", "f", "e", "r">>), JsonNone}}

\* a transaction of the response with the fields the loop reads
AIItem(amount, direction, type) ==
    [is_dict |-> TRUE,
     date |-> JsonStr(<<"2", "0", "2", "4", "-", "0", "5", "-", "0", "1">>),
     description |-> JsonStr(<<"G", "r", "o", "c", "e", "r", "y", " ", "S", "t", "o", "r", "e">>),
     amount |-> amount,
     direction |-> direction,
     type |-> type]

\* every amount under a direction that says Credit and one that says
\* Debit, every direction and type with the amount "$20.00", a
\* transaction whose amount and direction are both null, and a
\* transaction that is not an object
AIItems ==
    {AIItem(amount, direction, JsonMissing) :
        amount \in AIAmounts,
        direction \in {JsonStr(<<"C", "R", "E", "D", "I", "T">>),
                       JsonStr(<<"W", "i", "t", "h", "d", "r", "a", "w", "a", "l">>)}}
    \cup {AIItem(JsonStr(<<"$", "2", "0", ".", "0", "0">>), dt[1], dt[2]) :
            dt \in AIDirectionsAndTypes}
    \cup {AIItem(JsonNone, JsonNone, JsonMissing)}
    \cup {[is_dict |-> FALSE, date |-> JsonNone, description |-> JsonNone,
           amount |-> JsonNone, direction |-> JsonMissing,
           type |-> JsonMissing]}

\* the JSON value the response parses to
AIResponses ==
    {[is_dict |-> FALSE, starting_balance |-> JsonNone,
      ending_balance |-> JsonNone,
      transactions |-> [type |-> "other", items |-> <<>>]]}
    \cup {[is_dict |-> TRUE, starting_balance |-> start,
           ending_balance |-> end, transactions |-> txns] :
            start \in {JsonStr(<<"$", "1", "0", "0", ".", "0", "0">>), JsonNone},
            end \in {JsonStr(<<"8", "0", ".", "0", "0">>), JsonNum(10000 * CentUnits)},
            txns \in {[type |-> "other", items |-> <<>>]}
                     \cup {[type |-> "list", items |-> items] :
                             items \in SeqsUpTo(AIItems, MaxAIItems)}}

NoResponse ==
    [is_dict |-> FALSE, starting_balance |-> JsonNone,
     ending_balance |-> JsonNone,
     transactions |-> [type |-> "other", items |-> <<>>]]

\* what the AI collaborator does: no client is configured, a step before
\* the JSON is parsed raises, or the response parses to a JSON value
AIInputs ==
    {[has_client |-> FALSE, fault |-> "none", ai_data |-> NoResponse]}
    \cup {[has_client |-> TRUE, fault |-> fault, ai_data |-> NoResponse] :
            fault \in {"read_bytes", "generate_content", "no_json",
                       "json_loads"}}
    \cup {[has_client |-> TRUE, fault |-> "none", ai_data |-> ai_data] :
            ai_data \in AIResponses}

\* what a whole-document strategy returns
StrategyStatements ==
    {Candidate(start, Some(8000 * CentUnits), txns) :
        start \in {None, Some(10000 * CentUnits)},
        txns \in CandidateTransactions}

UtilsInputs ==
    {[raises |-> TRUE, wells_fargo |-> FALSE,
      wells_fargo_statement |-> NoResultsStatement,
      tabular_statement |-> NoResultsStatement,
      generic_statement |-> NoResultsStatement]}
    \cup [raises : {FALSE}, wells_fargo : BOOLEAN,
          wells_fargo_statement : StrategyStatements,
          tabular_statement : StrategyStatements,
          generic_statement : StrategyStatements]

\* one call of one entry point, on inputs drawn here
ParseInit ==
    /\ statement = None
    /\ \/ /\ entry = "heuristic"
          /\ extracted_text \in ExtractedTexts
          /\ clock_year \in ClockYears
          /\ ai_input = None
          /\ utils_input = None
       \/ /\ entry = "ai"
          /\ extracted_text = None
          /\ clock_year = 0
          /\ ai_input \in {Some(input) : input \in AIInputs}
          /\ utils_input = None
       \/ /\ entry = "utils"
          /\ extracted_text = None
          /\ clock_year = 0
          /\ ai_input = None
          /\ utils_input \in {Some(input) : input \in UtilsInputs}
    /\ ValidatorIdle
    /\ SelectorIdle
    /\ BatchIdle
    /\ AggIdle
    /\ DateIdle
    /\ RerunIdle
    /\ DirectionIdle
    /\ ScanIdle

\* BankStatementParser.parse_pdf
HeuristicParsePdf ==
    /\ entry = "heuristic"
    /\ statement = None
    /\ statement' = Some(BankStatementParser_parse_pdf(extracted_text, clock_year))
    /\ UNCHANGED <<entry, extracted_text, clock_year, ai_input, utils_input>>
    /\ UNCHANGED <<validatorVars, selectorVars, batchVars>>
    /\ UNCHANGED <<aggVars, dateVars, rerunVars>>
    /\ UNCHANGED <<directionVars, scanVars>>

\* AIBankStatementParser.parse_pdf
AIParsePdf ==
    /\ entry = "ai"
    /\ statement = None
    /\ statement' = Some(AIBankStatementParser_parse_pdf(Val(ai_input)))
    /\ UNCHANGED <<entry, extracted_text, clock_year, ai_input, utils_input>>
    /\ UNCHANGED <<validatorVars, selectorVars, batchVars>>
    /\ UNCHANGED <<aggVars, dateVars, rerunVars>>
    /\ UNCHANGED <<directionVars, scanVars>>

\* utils.extract_transactions_from_pdf
ExtractTransactionsFromPdf ==
    /\ entry = "utils"
    /\ statement = None
    /\ statement' = Some(extract_transactions_from_pdf(Val(utils_input)))
    /\ UNCHANGED <<entry, extracted_text, clock_year, ai_input, utils_input>>
    /\ UNCHANGED <<validatorVars, selectorVars, batchVars>>
    /\ UNCHANGED <<aggVars, dateVars, rerunVars>>
    /\ UNCHANGED <<directionVars, scanVars>>

ParseNext == HeuristicParsePdf \/ AIParsePdf \/ ExtractTransactionsFromPdf

SpecParse == ParseInit /\ [][ParseNext]_vars

---------------------------------------------------------------------------
(* batch_processing.BatchProcessor                                         *)
(*                                                                         *)
(* A file is what the two parsers meet when they open it: the extracted    *)
(* text (or None when the extraction raises) and what the AI collaborator  *)
(* does with it.  The batch id and the saved JSON file are left out.       *)

\* _process_single_file: the parser chosen by use_ai, applied to the file
process_single_file(file, with_ai, now_year) ==
    IF with_ai THEN AIBankStatementParser_parse_pdf(file.ai)
    ELSE BankStatementParser_parse_pdf(file.text, now_year)

\* the generator sum(1 for r in results if ...is_valid...)
ValidStatements(statements) ==
    Cardinality({i \in 1..Len(statements) : statements[i].validation.is_valid})

RECURSIVE TotalTransactions(_)
\* sum(len(r.get('transactions', [])) for r in results)
TotalTransactions(statements) ==
    IF statements = <<>> THEN 0
    ELSE Len(Head(statements).transactions)
         + TotalTransactions(Tail(statements))

\* transaction.get('amount', 0)
AmountOrZero(t) == IF t.amount = None THEN 0 ELSE Val(t.amount)

\* transaction.get('direction', '').lower()
LoweredDirection(t) ==
    IF t.direction = None THEN "" ELSE Lower(Val(t.direction))

RECURSIVE TotalOf(_, _)
\* the amounts of the transactions of one list whose lowered direction is
\* the given one, summed
TotalOf(txns, direction) ==
    IF txns = <<>> THEN 0
    ELSE (IF LoweredDirection(Head(txns)) = direction
          THEN AmountOrZero(Head(txns)) ELSE 0)
         + TotalOf(Tail(txns), direction)

RECURSIVE TotalOfAll(_, _)
\* total_credits ("credit") and total_debits ("debit") over all statements
TotalOfAll(statements, direction) ==
    IF statements = <<>> THEN 0
    ELSE TotalOf(Head(statements).transactions, direction)
         + TotalOfAll(Tail(statements), direction)

\* the statement enters the variance computation: its expected ending
\* balance is present and not zero
HasVariance(s) ==
    /\ s.validation.expected_ending_balance # None
    /\ Val(s.validation.expected_ending_balance) # 0

\* calculated - expected with calculated None: the TypeError
VarianceRaises(s) ==
    HasVariance(s) /\ s.validation.calculated_ending_balance = None

RECURSIVE GCD(_, _)
\* the greatest common divisor of a >= 0 and b > 0
GCD(a, b) == IF a % b = 0 THEN b ELSE GCD(b, a % b)

\* the quotient num / den (num >= 0, den > 0) in lowest terms
Fraction(num, den) ==
    [num |-> num \div GCD(num, den), den |-> den \div GCD(num, den)]

\* abs((calculated - expected) / expected) * 100, as the quotient it is
\* before the float division rounds it
Variance(s) ==
    Fraction(Abs(Val(s.validation.calculated_ending_balance)
                 - Val(s.validation.expected_ending_balance)) * 100,
             Abs(Val(s.validation.expected_ending_balance)))

\* variance > max_variance on fractions with positive denominators
Exceeds(v, max_variance) == v.num * max_variance.den > max_variance.num * v.den

RECURSIVE HighestVarianceZeroCounts(_, _, _, _)
\* mutation of HighestVariance: a statement whose expected ending balance
\* is zero enters the comparison with a variance of 100
HighestVarianceZeroCounts(statements, i, max_variance, max_variance_statement) ==
    IF i > Len(statements) THEN max_variance_statement
    ELSE IF statements[i].validation.expected_ending_balance = Some(0)
            /\ statements[i].validation.calculated_ending_balance
                   \notin {None, Some(0)}
            /\ Exceeds(Fraction(100, 1), max_variance)
    THEN HighestVarianceZeroCounts(statements, i + 1,
             Fraction(100, 1),
             Some([index |-> i - 1,
                   expected |-> 0,
                   calculated |-> Val(statements[i].validation.calculated_ending_balance),
                   variance |-> Fraction(100, 1)]))
    ELSE IF HasVariance(statements[i])
            /\ Exceeds(Variance(statements[i]), max_variance)
    THEN HighestVarianceZeroCounts(statements, i + 1,
             Variance(statements[i]),
             Some([index |-> i - 1,
                   expected |-> Val(statements[i].validation.expected_ending_balance),
                   calculated |-> Val(statements[i].validation.calculated_ending_balance),
                   variance |-> Variance(statements[i])]))
    ELSE HighestVarianceZeroCounts(statements, i + 1, max_variance,
                                   max_variance_statement)

RECURSIVE HighestVariance(_, _, _, _)
\* the loop over enumerate(results) from position i on, with the running
\* max_variance and max_variance_statement
HighestVariance(statements, i, max_variance, max_variance_statement) ==
    IF i > Len(statements) THEN max_variance_statement
    ELSE IF HasVariance(statements[i])
            /\ Exceeds(Variance(statements[i]), max_variance)
    THEN HighestVariance(statements, i + 1, Variance(statements[i]),
             Some([index |-> i - 1,
                   expected |-> Val(statements[i].validation.expected_ending_balance),
                   calculated |-> Val(statements[i].validation.calculated_ending_balance),
                   variance |-> Variance(statements[i])]))
    ELSE HighestVariance(statements, i + 1, max_variance,
                         max_variance_statement)

\* _calculate_statistics: the statistics, or the exception
calculate_statistics(statements) ==
    IF \E i \in 1..Len(statements) : VarianceRaises(statements[i])
    THEN Raised
    ELSE Returned(
           [total_statements |-> Len(statements),
            valid_statements |-> ValidStatements(statements),
            invalid_statements |->
                Len(statements) - ValidStatements(statements),
            total_transactions |-> TotalTransactions(statements),
            total_credits |-> TotalOfAll(statements, "credit"),
            total_debits |-> TotalOfAll(statements, "debit"),
            highest_variance |->
                HighestVariance(statements, 1, [num |-> 0, den |-> 1], None)])

---------------------------------------------------------------------------
(* Inputs of the batch model *)

\* the most files a batch has
MaxFiles == 3

\* the most worker threads of the pool
MaxWorkers == 2

\* the response of the AI collaborator with the two balances given and the
\* transactions listed
AIAnswer(start, end, items) ==
    [has_client |-> TRUE, fault |-> "none",
     ai_data |-> [is_dict |-> TRUE, starting_balance |-> start,
                  ending_balance |-> end,
                  transactions |-> [type |-> "list", items |-> items]]]

\* the withdrawal of 20.00 as the response lists it
AIWithdrawal ==
    [is_dict |-> TRUE,
     date |-> JsonStr(<<"2", "0", "2", "4", "-", "0", "5", "-", "0", "1">>),
     description |-> JsonStr(<<"G", "r", "o", "c", "e", "r", "y", " ", "S", "t", "o", "r", "e">>),
     amount |-> JsonStr(<<"$", "2", "0", ".", "0", "0">>),
     direction |-> JsonStr(<<"W", "i", "t", "h", "d", "r", "a", "w", "a", "l">>),
     type |-> JsonMissing]

\* a statement that reconciles, an unreadable file, a statement with only
\* its closing balance, and a statement whose balances differ with no
\* transaction between them
BatchFiles ==
    {[text |-> Some(<<"Beginning Balance: $100.00",
                      "05/01/2024 Grocery Store Debit $20.00",
                      "Ending Balance: $80.00">>),
      ai |-> AIAnswer(JsonStr(<<"$", "1", "0", "0", ".", "0", "0">>), JsonStr(<<"8", "0", ".", "0", "0">>),
                      <<AIWithdrawal>>)],
     [text |-> None,
      ai |-> [has_client |-> TRUE, fault |-> "read_bytes",
              ai_data |-> NoResponse]],
     [text |-> Some(<<"Closing Balance 80.00">>),
      ai |-> AIAnswer(JsonNone, JsonStr(<<"8", "0", ".", "0", "0">>), <<>>)],
     [text |-> Some(<<"Beginning Balance: $100.00", "Closing Balance 80.00">>),
      ai |-> AIAnswer(JsonStr(<<"$", "1", "0", "0", ".", "0", "0">>), JsonStr(<<"8", "0", ".", "0", "0">>), <<>>)]}

\* a future of the executor: queued, running, or done with its result
Future(state, result) == [state |-> state, result |-> result]

Running == {i \in 1..Len(futures) : futures[i].state = "running"}

Queued == {i \in 1..Len(futures) : futures[i].state = "queued"}

\* process_batch is called: nothing is submitted yet
BatchInit ==
    /\ pdf_files \in SeqsUpTo(BatchFiles, MaxFiles)
    /\ use_ai \in BOOLEAN
    /\ max_workers \in 1..MaxWorkers
    /\ futures = <<>>
    /\ batch_results = <<>>
    /\ pc = "run"
    /\ batch_result = None
    /\ entry = "batch"
    /\ extracted_text = None
    /\ clock_year \in ClockYears
    /\ ai_input = None
    /\ utils_input = None
    /\ statement = None
    /\ ValidatorIdle
    /\ SelectorIdle
    /\ AggIdle
    /\ DateIdle
    /\ RerunIdle
    /\ DirectionIdle
    /\ ScanIdle

\* one turn of the first loop: executor.submit for the next path
Submit ==
    /\ pc = "run"
    /\ Len(futures) < Len(pdf_files)
    /\ futures' = Append(futures, Future("queued", None))
    /\ UNCHANGED <<pdf_files, use_ai, max_workers, batch_results, pc,
                   batch_result>>
    /\ UNCHANGED <<validatorVars, selectorVars, parseVars>>
    /\ UNCHANGED <<aggVars, dateVars, rerunVars>>
    /\ UNCHANGED <<directionVars, scanVars>>

\* a worker thread takes the oldest work item of the queue; the pool has at
\* most max_workers threads
WorkerStart ==
    /\ pc = "run"
    /\ Queued # {}
    /\ Cardinality(Running) < max_workers
    /\ LET i == CHOOSE q \in Queued : \A other \in Queued : q <= other
       IN futures' = [futures EXCEPT ![i] = Future("running", None)]
    /\ UNCHANGED <<pdf_files, use_ai, max_workers, batch_results, pc,
                   batch_result>>
    /\ UNCHANGED <<validatorVars, selectorVars, parseVars>>
    /\ UNCHANGED <<aggVars, dateVars, rerunVars>>
    /\ UNCHANGED <<directionVars, scanVars>>

\* a worker thread finishes _process_single_file: any of the running ones
WorkerFinish ==
    /\ pc = "run"
    /\ \E i \in Running :
         futures' = [futures EXCEPT ![i] =
                        Future("done",
                               Some(process_single_file(pdf_files[i], use_ai,
                                                        clock_year)))]
    /\ UNCHANGED <<pdf_files, use_ai, max_workers, batch_results, pc,
                   batch_result>>
    /\ UNCHANGED <<validatorVars, selectorVars, parseVars>>
    /\ UNCHANGED <<aggVars, dateVars, rerunVars>>
    /\ UNCHANGED <<directionVars, scanVars>>

\* one turn of the second loop, entered when the first has ended:
\* future.result() returns once that future is done
Collect ==
    /\ pc = "run"
    /\ Len(futures) = Len(pdf_files)
    /\ Len(batch_results) < Len(pdf_files)
    /\ futures[Len(batch_results) + 1].state = "done"
    /\ batch_results' =
           Append(batch_results, Val(futures[Len(batch_results) + 1].result))
    /\ UNCHANGED <<pdf_files, use_ai, max_workers, futures, pc, batch_result>>
    /\ UNCHANGED <<validatorVars, selectorVars, parseVars>>
    /\ UNCHANGED <<aggVars, dateVars, rerunVars>>
    /\ UNCHANGED <<directionVars, scanVars>>

\* the result of process_batch once the statistics are computed
BatchOutcome(statements, statistics) ==
    IF statistics.raised THEN Raised
    ELSE Returned([statements |-> statements,
                   statistics |-> statistics.result])

\* the rest of process_batch: the statistics, and the return or the
\* exception
Return ==
    /\ pc = "run"
    /\ Len(batch_results) = Len(pdf_files)
    /\ batch_result' =
           Some(BatchOutcome(batch_results,
                             calculate_statistics(batch_results)))
    /\ pc' = "done"
    /\ UNCHANGED <<pdf_files, use_ai, max_workers, futures, batch_results>>
    /\ UNCHANGED <<validatorVars, selectorVars, parseVars>>
    /\ UNCHANGED <<aggVars, dateVars, rerunVars>>
    /\ UNCHANGED <<directionVars, scanVars>>

BatchNext == Submit \/ WorkerStart \/ WorkerFinish \/ Collect \/ Return

SpecBatch == BatchInit /\ [][BatchNext]_vars

---------------------------------------------------------------------------
(* batch_processing.BatchProcessor.generate_summary_report                 *)
(*                                                                         *)
(* The batch is read back from the JSON file process_batch saved: the      *)
(* same statements and statistics, or nothing when no file has that id.    *)

\* (calculated - expected) / expected with an operand None: the TypeError
\* of the variance of a valid statement
SummaryVarianceRaises(s) ==
    /\ s.validation.is_valid
    /\ s.validation.expected_ending_balance # Some(0)
    /\ \/ s.validation.expected_ending_balance = None
       \/ s.validation.calculated_ending_balance = None

\* the variance of a valid statement: 0 or 100 when expected is 0
SummaryVariance(s) ==
    IF Val(s.validation.expected_ending_balance) = 0
    THEN IF s.validation.calculated_ending_balance = Some(0)
         THEN Fraction(0, 1) ELSE Fraction(100, 1)
    ELSE Variance(s)

\* mutation of VarianceGroup: a variance of exactly 5 counted as high
VarianceGroupFiveIsHigh(variance) ==
    IF variance.num = 0 THEN "no_variance"
    ELSE IF variance.num < variance.den THEN "low_variance"
    ELSE IF variance.num < 5 * variance.den THEN "medium_variance"
    ELSE "high_variance"

\* the key of variance_groups a variance is counted under
VarianceGroup(variance) ==
    IF variance.num = 0 THEN "no_variance"
    ELSE IF variance.num < variance.den THEN "low_variance"
    ELSE IF variance.num <= 5 * variance.den THEN "medium_variance"
    ELSE "high_variance"

\* the key of variance_groups one statement is counted under
GroupOf(s) ==
    IF ~s.validation.is_valid THEN "invalid"
    ELSE VarianceGroup(SummaryVariance(s))

\* variance_groups after the loop over the statements
VarianceGroups(statements) ==
    [group \in {"no_variance", "low_variance", "medium_variance",
                "high_variance", "invalid"} |->
        Cardinality({i \in 1..Len(statements) :
                        GroupOf(statements[i]) = group})]

\* mutation of Recommendations: the high variance recommendation is
\* emitted only when no statement is invalid
RecommendationsEitherOr(statistics, variance_groups) ==
    IF statistics.invalid_statements > 0
    THEN <<Text("review_invalid_statements", 0)>>
    ELSE IF variance_groups["high_variance"] > 0
    THEN <<Text("high_variance_statements",
                variance_groups["high_variance"])>>
    ELSE <<>>

\* the recommendations list
Recommendations(statistics, variance_groups) ==
    (IF statistics.invalid_statements > 0
     THEN <<Text("review_invalid_statements", 0)>> ELSE <<>>)
    \o (IF variance_groups["high_variance"] > 0
        THEN <<Text("high_variance_statements",
                    variance_groups["high_variance"])>>
        ELSE <<>>)

\* summary_report, once variance_groups is computed
SummaryReport(statistics, variance_groups) ==
    [statistics |-> statistics,
     variance_distribution |-> variance_groups,
     recommendations |-> Recommendations(statistics, variance_groups)]

\* generate_summary_report on what get_batch_result gives: None when there
\* is no batch, the report, or the exception
generate_summary_report(batch_result_read) ==
    IF batch_result_read = None THEN Returned(None)
    ELSE IF \E i \in 1..Len(Val(batch_result_read).statements) :
                SummaryVarianceRaises(Val(batch_result_read).statements[i])
    THEN Raised
    ELSE Returned(Some(SummaryReport(
             Val(batch_result_read).statistics,
             VarianceGroups(Val(batch_result_read).statements))))

---------------------------------------------------------------------------
(* Inputs of the aggregation model *)

\* the most Statements given to _calculate_statistics
MaxStatements == 3

\* a withdrawal of 20.00 and a deposit of 20.00
AggDebit ==
    Transaction("2024-05-01", "Grocery Store", "Debit", 2000 * CentUnits)

AggCredit ==
    Transaction("2024-05-02", "Payroll", "Credit", 2000 * CentUnits)

\* a Statement with no transaction whose calculated balance is one cent
\* above the expected one and which the validator lets through: in floats
\* 0.06 - 0.05, 0.21 - 0.20 and 1.13 - 1.12 are all below 0.01
OneCentAbove(expected) ==
    [ParsedStatement(Some(expected + CentUnits), Some(expected), <<>>)
        EXCEPT !.validation.is_valid = TRUE,
               !.validation.message = Text("valid", 0)]

\* the Statements process_batch collects: one that reconciles, an
\* error-flagged one, the four cases of missing balances, mismatches of
\* 25 % (twice), 140 % and with an expected balance of 0.00, one that
\* reconciles at 0.00, and the three let through one cent apart (20 %, 5 %
\* and 0.89 %)
AggStatements ==
    {ParsedStatement(Some(10000 * CentUnits), Some(8000 * CentUnits),
                     <<AggDebit>>),
     ErrorStatement,
     ParsedStatement(Some(10000 * CentUnits), None, <<>>),
     ParsedStatement(None, Some(8000 * CentUnits), <<>>),
     ParsedStatement(None, None, <<>>),
     ParsedStatement(Some(10000 * CentUnits), Some(8000 * CentUnits), <<>>),
     ParsedStatement(Some(5000 * CentUnits), Some(4000 * CentUnits), <<>>),
     ParsedStatement(Some(10000 * CentUnits), Some(5000 * CentUnits),
                     <<AggCredit>>),
     ParsedStatement(Some(500 * CentUnits), Some(0), <<>>),
     ParsedStatement(Some(0), Some(0), <<>>),
     OneCentAbove(5 * CentUnits),
     OneCentAbove(20 * CentUnits),
     OneCentAbove(112 * CentUnits)}

\* _calculate_statistics is called on the Statements collected
AggInit ==
    /\ stat_results \in SeqsUpTo(AggStatements, MaxStatements)
    /\ stat_outcome = None
    /\ summary_report = None
    /\ ValidatorIdle
    /\ SelectorIdle
    /\ ParseIdle
    /\ BatchIdle
    /\ DateIdle
    /\ RerunIdle
    /\ DirectionIdle
    /\ ScanIdle

\* _calculate_statistics returns or raises
CalculateStatistics ==
    /\ stat_outcome = None
    /\ stat_outcome' = Some(calculate_statistics(stat_results))
    /\ UNCHANGED <<stat_results, summary_report>>
    /\ UNCHANGED <<validatorVars, selectorVars, parseVars, batchVars>>
    /\ UNCHANGED <<dateVars, rerunVars>>
    /\ UNCHANGED <<directionVars, scanVars>>

\* what get_batch_result reads: the batch process_batch saved, or nothing
\* when process_batch raised before saving
SavedBatch(statements, outcome) ==
    IF outcome.raised THEN None
    ELSE Some([statements |-> statements, statistics |-> outcome.result])

\* generate_summary_report for the id of the batch
GenerateSummaryReport ==
    /\ stat_outcome # None
    /\ summary_report = None
    /\ summary_report' =
           Some(generate_summary_report(
                    SavedBatch(stat_results, Val(stat_outcome))))
    /\ UNCHANGED <<stat_results, stat_outcome>>
    /\ UNCHANGED <<validatorVars, selectorVars, parseVars, batchVars>>
    /\ UNCHANGED <<dateVars, rerunVars>>
    /\ UNCHANGED <<directionVars, scanVars>>

AggNext == CalculateStatistics \/ GenerateSummaryReport

SpecStatistics == AggInit /\ [][AggNext]_vars

---------------------------------------------------------------------------
(* Inputs of the date model *)

\* the tokens given to _parse_date: each shape the function tests, with
\* fields that form a date and fields that do not, years below 1000, tokens
\* followed by more text and a token of no known shape
DateTokens ==
    {<<"0", "5", "/", "0", "1", "/", "2", "0", "2", "4">>, <<"2", "5", "/", "1", "2", "/", "2", "0", "2", "4">>, <<"1", "2", "/", "2", "5", "/", "2", "0", "2", "4">>, <<"1", "3", "/", "2", "5", "/", "2", "0", "2", "4">>,
     <<"3", "1", "/", "0", "2", "/", "2", "0", "2", "4">>, <<"5", "/", "1", "/", "2", "0", "2", "4">>, <<"0", "1", "/", "0", "1", "/", "0", "9", "9", "9">>, <<"0", "5", "/", "0", "1", "/", "2", "0", "2", "4", "x">>,
     <<"0", "5", "/", "0", "1">>, <<"0", "2", "/", "2", "9">>, <<"0", "5", "/", "0", "1", "/", "2", "4">>, <<"1", "3", "/", "0", "1">>,
     <<"0", "5", "-", "0", "4", "-", "2", "0", "2", "4">>, <<"3", "1", "-", "0", "2", "-", "2", "0", "2", "4">>,
     <<"2", "0", "2", "4", "-", "0", "5", "-", "0", "1">>, <<"2", "0", "2", "4", "-", "5", "-", "1">>, <<"2", "0", "2", "4", "-", "0", "2", "-", "3", "1">>, <<"2", "0", "2", "4", "-", "0", "2", "-", "2", "9">>,
     <<"2", "0", "2", "3", "-", "0", "2", "-", "2", "9">>, <<"0", "9", "9", "9", "-", "0", "1", "-", "0", "1">>, <<"0", "0", "0", "1", "-", "0", "1", "-", "0", "1">>, <<"0", "0", "0", "0", "-", "0", "1", "-", "0", "1">>,
     <<"M", "a", "y", " ", "1">>}

\* a line of the context, of which _parse_date reads the characters only
ContextLine(chars) == [chars |-> chars]

\* the context texts: empty, with a year in the header, and with four
\* digits that write a number below 1000
DateContexts ==
    {<<>>,
     <<ContextLine(<<"S", "t", "a", "t", "e", "m", "e", "n", "t", " ", "2", "0", "2", "3">>)>>,
     <<ContextLine(<<"S", "t", "a", "t", "e", "m", "e", "n", "t", " ", "2", "0", "2", "4">>)>>,
     <<ContextLine(<<"A", "c", "c", "t", " ", "0", "0", "4", "2">>)>>}

\* _parse_date is called on a token and a context text; datetime.now() is
\* in the year clock_year
DateInit ==
    /\ token \in DateTokens
    /\ context \in DateContexts
    /\ normalized_date = None
    /\ entry = "none"
    /\ extracted_text = None
    /\ clock_year \in ClockYears
    /\ ai_input = None
    /\ utils_input = None
    /\ statement = None
    /\ ValidatorIdle
    /\ SelectorIdle
    /\ BatchIdle
    /\ AggIdle
    /\ RerunIdle
    /\ DirectionIdle
    /\ ScanIdle

\* BankStatementParser._parse_date returns
ParseDate ==
    /\ normalized_date = None
    /\ normalized_date' =
           Some(BankStatementParser_parse_date(token, context, clock_year))
    /\ UNCHANGED <<token, context>>
    /\ UNCHANGED <<validatorVars, selectorVars, parseVars, batchVars>>
    /\ UNCHANGED <<aggVars, rerunVars>>
    /\ UNCHANGED <<directionVars, scanVars>>

DateNext == ParseDate

SpecDate == DateInit /\ [][DateNext]_vars

---------------------------------------------------------------------------
(* Two runs of the heuristic pipeline on the same text *)
(*                                                                         *)
(* parse_pdf assigns no attribute of the parser: the instance holds only   *)
(* the pattern lists set by __init__, so a second run on the same instance *)
(* differs from the first by the clock alone.                              *)

\* the same text is parsed twice, the second time no earlier than the first
RerunInit ==
    /\ entry = "rerun"
    /\ extracted_text \in ExtractedTexts
    /\ clock_year \in ClockYears
    /\ rerun_year \in {year \in ClockYears : year >= clock_year}
    /\ ai_input = None
    /\ utils_input = None
    /\ statement = None
    /\ rerun_statement = None
    /\ ValidatorIdle
    /\ SelectorIdle
    /\ BatchIdle
    /\ AggIdle
    /\ DateIdle
    /\ DirectionIdle
    /\ ScanIdle

\* the first run of BankStatementParser.parse_pdf, in the year clock_year
FirstRun ==
    /\ entry = "rerun"
    /\ statement = None
    /\ statement' =
           Some(BankStatementParser_parse_pdf(extracted_text, clock_year))
    /\ UNCHANGED <<entry, extracted_text, clock_year, ai_input, utils_input>>
    /\ UNCHANGED rerunVars
    /\ UNCHANGED <<directionVars, scanVars>>
    /\ UNCHANGED <<validatorVars, selectorVars, batchVars, aggVars, dateVars>>

\* the second run, in the year rerun_year
SecondRun ==
    /\ entry = "rerun"
    /\ statement # None
    /\ rerun_statement = None
    /\ rerun_statement' =
           Some(BankStatementParser_parse_pdf(extracted_text, rerun_year))
    /\ UNCHANGED rerun_year
    /\ UNCHANGED <<validatorVars, selectorVars, parseVars, batchVars>>
    /\ UNCHANGED <<aggVars, dateVars>>
    /\ UNCHANGED <<directionVars, scanVars>>

RerunNext == FirstRun \/ SecondRun

SpecRerun == RerunInit /\ [][RerunNext]_vars

---------------------------------------------------------------------------
(* utils.determine_transaction_direction: the module-level classifier *)

utils_determine_transaction_direction(transaction_text, credit_section, debit_section) ==
    LET lower_text == LowerText(transaction_text)
    IN IF credit_section THEN "Credit"
       ELSE IF debit_section THEN "Debit"
       ELSE IF \/ ContainsWord(transaction_text, <<"C", "R">>)
               \/ SignBeforeDigit(transaction_text, "+")
            THEN "Credit"
       ELSE IF \/ ContainsWord(transaction_text, <<"D", "R">>)
               \/ SignBeforeDigit(transaction_text, "-")
            THEN "Debit"
       ELSE IF ContainsAny(lower_text,
                   <<<<"c", "r", "e", "d", "i", "t">>, <<"d", "e", "p", "o", "s", "i", "t">>, <<"i", "n", "t", "e", "r", "e", "s", "t">>, <<"r", "e", "f", "u", "n", "d">>,
                     <<"t", "r", "a", "n", "s", "f", "e", "r", " ", "i", "n">>, <<"s", "a", "l", "a", "r", "y">>, <<"i", "n", "c", "o", "m", "e">>>>)
            THEN "Credit"
       ELSE IF ContainsAny(lower_text,
                   <<<<"d", "e", "b", "i", "t">>, <<"w", "i", "t", "h", "d", "r", "a", "w", "a", "l">>, <<"p", "a", "y", "m", "e", "n", "t">>, <<"p", "u", "r", "c", "h", "a", "s", "e">>,
                     <<"f", "e", "e">>, <<"c", "h", "a", "r", "g", "e">>, <<"t", "r", "a", "n", "s", "f", "e", "r", " ", "o", "u", "t">>>>)
            THEN "Debit"
       ELSE "Debit"

---------------------------------------------------------------------------
(* Inputs of the classifier model *)

\* the transaction lines classified: lines that meet no rule, one rule, or
\* several rules that disagree
DirectionLines ==
    {<<"C", "o", "f", "f", "e", "e", " ", "S", "h", "o", "p", " ", "4", ".", "5", "0">>,
     <<"D", "e", "p", "o", "s", "i", "t", " ", "M", "a", "d", "e", " ", "I", "n", " ", "A", " ", "B", "r", "a", "n", "c", "h", "/", "S", "t", "o", "r", "e", " ", "1", "0", "0", ".", "0", "0">>,
     <<"B", "A", "N", "K", "C", "A", "R", "D", " ", "s", "e", "t", "t", "l", "e", "m", "e", "n", "t", " ", "1", "0", ".", "0", "0">>,
     <<"M", "o", "b", "i", "l", "e", " ", "D", "e", "p", "o", "s", "i", "t", " ", "5", "0", ".", "0", "0">>,
     <<"R", "e", "f", "u", "n", "d", " ", "C", "R", " ", "1", "2", ".", "5", "0">>,
     <<"R", "e", "n", "t", " ", "D", "R", " ", "9", "0", "0", ".", "0", "0">>,
     <<"D", "e", "p", "o", "s", "i", "t", " ", "r", "e", "v", "e", "r", "s", "a", "l", " ", "D", "R", " ", "5", ".", "0", "0">>,
     <<"B", "a", "n", "k", "c", "a", "r", "d", " ", "f", "e", "e", " ", "-", "3", ".", "0", "0">>,
     <<"C", "a", "s", "h", " ", "d", "e", "p", "o", "s", "i", "t", " ", "+", "5", "0", ".", "0", "0">>,
     <<"P", "a", "y", "m", "e", "n", "t", " ", "+", " ", "5", ".", "0", "0">>,
     <<"I", "n", "t", "e", "r", "e", "s", "t", " ", "D", "R", " ", "3", ".", "0", "0">>,
     <<"P", "u", "r", "c", "h", "a", "s", "e", " ", "C", "R", " ", "8", ".", "0", "0">>,
     <<"T", "r", "a", "n", "s", "f", "e", "r", " ", "-", "2", "0", ".", "0", "0">>,
     <<"S", "a", "l", "a", "r", "y", " ", "1", ",", "5", "0", "0", ".", "0", "0">>,
     <<"M", "o", "n", "t", "h", "l", "y", " ", "f", "e", "e", " ", "2", ".", "0", "0">>,
     <<"P", "a", "y", "m", "e", "n", "t", " ", "r", "e", "c", "e", "i", "v", "e", "d", " ", "2", "0", ".", "0", "0">>,
     <<"I", "n", "t", "e", "r", "e", "s", "t", " ", "c", "h", "a", "r", "g", "e", " ", "1", ".", "0", "0">>,
     <<"C", "a", "r", "d", " ", "P", "u", "r", "c", "h", "a", "s", "e", " ", "3", "0", ".", "0", "0">>,
     <<"A", "C", "R", "E", " ", "f", "a", "r", "m", " ", "7", ".", "0", "0">>,
     <<"c", "r", " ", "a", "d", "j", "u", "s", "t", "m", "e", "n", "t", " ", "7", ".", "0", "0">>,
     <<"0", "5", "-", "0", "4", "-", "2", "0", "2", "4", " ", "S", "a", "l", "a", "r", "y", " ", "3", "0", ".", "0", "0">>,
     <<"C", "h", "e", "c", "k", " ", "1", "0", "1", " ", "1", "2", ".", "0", "0">>}

\* the two classifiers are called on a line and the section flags
DirectionInit ==
    /\ line_text \in DirectionLines
    /\ credit_flag \in BOOLEAN
    /\ debit_flag \in BOOLEAN
    /\ parser_direction = None
    /\ utils_direction = None
    /\ ValidatorIdle
    /\ SelectorIdle
    /\ ParseIdle
    /\ BatchIdle
    /\ AggIdle
    /\ DateIdle
    /\ RerunIdle
    /\ ScanIdle

\* BankStatementParser._determine_transaction_direction returns
ParserClassify ==
    /\ parser_direction = None
    /\ parser_direction' =
           Some(BankStatementParser_determine_transaction_direction(
                    line_text, credit_flag, debit_flag))
    /\ UNCHANGED <<line_text, credit_flag, debit_flag, utils_direction>>
    /\ UNCHANGED <<validatorVars, selectorVars, parseVars, batchVars>>
    /\ UNCHANGED <<aggVars, dateVars, rerunVars, scanVars>>

\* utils.determine_transaction_direction returns
UtilsClassify ==
    /\ utils_direction = None
    /\ utils_direction' =
           Some(utils_determine_transaction_direction(
                    line_text, credit_flag, debit_flag))
    /\ UNCHANGED <<line_text, credit_flag, debit_flag, parser_direction>>
    /\ UNCHANGED <<validatorVars, selectorVars, parseVars, batchVars>>
    /\ UNCHANGED <<aggVars, dateVars, rerunVars, scanVars>>

DirectionNext == ParserClassify \/ UtilsClassify

SpecDirection == DirectionInit /\ [][DirectionNext]_vars

---------------------------------------------------------------------------
(* The pattern pass line by line: the loop of                              *)
(* BankStatementParser._extract_pattern_transactions, one step for every   *)
(* line of the text                                                        *)

\* what the parser's regular expressions find in the lines of the text
\* being scanned
ScanFacts == [i \in 1..Len(scan_text) |-> LineFacts(scan_text[i])]

\* the pass starts on a text with both section flags False and no
\* transaction
ScanInit ==
    /\ scan_text \in SeqsUpTo(LineSet, MaxLines)
    /\ scan_pos = 0
    /\ scan_credit = FALSE
    /\ scan_debit = FALSE
    /\ scan_transactions = <<>>
    /\ entry = "none"
    /\ extracted_text = None
    /\ clock_year \in ClockYears
    /\ ai_input = None
    /\ utils_input = None
    /\ statement = None
    /\ ValidatorIdle
    /\ SelectorIdle
    /\ BatchIdle
    /\ AggIdle
    /\ DateIdle
    /\ RerunIdle
    /\ DirectionIdle

\* a credit header sets the credit flag and leaves the debit flag as it is
CreditHeaderLineKeepingDebit ==
    /\ scan_pos < Len(scan_text)
    /\ IsCreditHeader(ScanFacts[scan_pos + 1])
    /\ scan_pos' = scan_pos + 1
    /\ scan_credit' = TRUE
    /\ UNCHANGED <<scan_text, scan_debit, scan_transactions>>
    /\ UNCHANGED <<validatorVars, selectorVars, parseVars, batchVars>>
    /\ UNCHANGED <<aggVars, dateVars, rerunVars, directionVars>>

\* the next line is a credit section header: credit_section = True,
\* debit_section = False, continue
CreditHeaderLine ==
    /\ scan_pos < Len(scan_text)
    /\ IsCreditHeader(ScanFacts[scan_pos + 1])
    /\ scan_pos' = scan_pos + 1
    /\ scan_credit' = TRUE
    /\ scan_debit' = FALSE
    /\ UNCHANGED <<scan_text, scan_transactions>>
    /\ UNCHANGED <<validatorVars, selectorVars, parseVars, batchVars>>
    /\ UNCHANGED <<aggVars, dateVars, rerunVars, directionVars>>

\* the next line is a debit section header and no credit section header:
\* debit_section = True, credit_section = False, continue
DebitHeaderLine ==
    /\ scan_pos < Len(scan_text)
    /\ ~IsCreditHeader(ScanFacts[scan_pos + 1])
    /\ IsDebitHeader(ScanFacts[scan_pos + 1])
    /\ scan_pos' = scan_pos + 1
    /\ scan_debit' = TRUE
    /\ scan_credit' = FALSE
    /\ UNCHANGED <<scan_text, scan_transactions>>
    /\ UNCHANGED <<validatorVars, selectorVars, parseVars, batchVars>>
    /\ UNCHANGED <<aggVars, dateVars, rerunVars, directionVars>>

\* the next line is no header: every transaction pattern is tried on it
TransactionLine ==
    /\ scan_pos < Len(scan_text)
    /\ ~IsCreditHeader(ScanFacts[scan_pos + 1])
    /\ ~IsDebitHeader(ScanFacts[scan_pos + 1])
    /\ scan_pos' = scan_pos + 1
    /\ scan_transactions' =
           scan_transactions
           \o LineTransactions(ScanFacts, scan_pos + 1, scan_credit,
                               scan_debit, clock_year)
    /\ UNCHANGED <<scan_text, scan_credit, scan_debit>>
    /\ UNCHANGED <<validatorVars, selectorVars, parseVars, batchVars>>
    /\ UNCHANGED <<aggVars, dateVars, rerunVars, directionVars>>

ScanNext == CreditHeaderLine \/ DebitHeaderLine \/ TransactionLine

SpecScan == ScanInit /\ [][ScanNext]_vars

\* once every line is scanned the transactions are those the pass returns
ScanReturnsPatternPass ==
    scan_pos = Len(scan_text) =>
        scan_transactions =
            BankStatementParser_extract_pattern_transactions(ScanFacts, clock_year)

---------------------------------------------------------------------------
(* The three validators called on the same arguments *)

\* one call of AIBankStatementParser._validate_transactions on the drawn
\* arguments
AIValidate ==
    /\ ai_validation = None
    /\ ai_validation' =
         Some(AIBankStatementParser_validate_transactions(starting_balance, ending_balance, transactions))
    /\ UNCHANGED <<starting_balance, ending_balance, transactions>>
    /\ UNCHANGED <<validation, utils_validation>>
    /\ UNCHANGED <<selectorVars, parseVars, batchVars>>
    /\ UNCHANGED <<aggVars, dateVars, rerunVars>>
    /\ UNCHANGED <<directionVars, scanVars>>

\* one call of utils.validate_transactions on the drawn arguments
UtilsValidate ==
    /\ utils_validation = None
    /\ utils_validation' =
         Some(validate_transactions(starting_balance, ending_balance, transactions))
    /\ UNCHANGED <<starting_balance, ending_balance, transactions>>
    /\ UNCHANGED <<validation, ai_validation>>
    /\ UNCHANGED <<selectorVars, parseVars, batchVars>>
    /\ UNCHANGED <<aggVars, dateVars, rerunVars>>
    /\ UNCHANGED <<directionVars, scanVars>>

ValidatorsNext == Validate \/ AIValidate \/ UtilsValidate

SpecValidators == ValidatorInit /\ [][ValidatorsNext]_vars

---------------------------------------------------------------------------
(* Properties of the Reconciliation Validator *)

\* the result of the call, once it has returned
Result == Val(validation)

RECURSIVE SumAmounts(_, _)
\* the sum of the amounts of the transactions at the indices I
SumAmounts(txns, I) ==
    IF I = {} THEN 0
    ELSE LET i == CHOOSE j \in I : TRUE
         IN Val(txns[i].amount) + SumAmounts(txns, I \ {i})

\* the indices of the transactions carrying an amount and direction dir
IndicesOf(txns, dir) ==
    {i \in 1..Len(txns) :
        /\ txns[i].amount # None
        /\ txns[i].direction # None
        /\ Lower(Val(txns[i].direction)) = dir}

\* starting balance + sum of Credit amounts - sum of Debit amounts
CalculatedBalance ==
    Val(starting_balance)
    + SumAmounts(transactions, IndicesOf(transactions, "credit"))
    - SumAmounts(transactions, IndicesOf(transactions, "debit"))

BothBalancesPresent == starting_balance # None /\ ending_balance # None

HasWarning(v, kind) == \E i \in 1..Len(v.warnings) : v.warnings[i].kind = kind

C2_MissingBalanceRefused ==
    (validation # None /\ ~BothBalancesPresent) =>
        /\ ~Result.is_valid
        /\ Result.message = Text("cannot_validate_missing_balance", 0)
        /\ Result.calculated_ending_balance = None
        /\ Result.difference = None

\* only the starting balance is missing and the list has transactions
C2_Witness ==
    /\ validation # None
    /\ starting_balance = None
    /\ ending_balance # None
    /\ IndicesOf(transactions, "credit") # {}

\* C3: with both balances present the difference reported is calculated
\* minus expected, signed; starting 100.00, one Debit of 20.00 and ending
\* 90.00 give is_valid = false and difference = -10.00.
C3_SignedDifference ==
    (validation # None /\ BothBalancesPresent) =>
        /\ Result.difference =
             Some(Round2(CalculatedBalance) - Round2(Val(ending_balance)))
        /\ Result.difference =
             Some(Val(Result.calculated_ending_balance)
                  - Val(Result.expected_ending_balance))
        /\ ( /\ starting_balance = Some(10000 * CentUnits)
             /\ ending_balance = Some(9000 * CentUnits)
             /\ Len(transactions) = 1
             /\ transactions[1].direction = Some("Debit")
             /\ transactions[1].amount = Some(2000 * CentUnits) )
           => ( /\ ~Result.is_valid
                /\ Result.difference = Some(-(1000 * CentUnits)) )

\* the scenario of the claim, validated
C3_Witness ==
    /\ validation # None
    /\ starting_balance = Some(10000 * CentUnits)
    /\ ending_balance = Some(9000 * CentUnits)
    /\ Len(transactions) = 1
    /\ transactions[1].direction = Some("Debit")
    /\ transactions[1].amount = Some(2000 * CentUnits)
    /\ Val(Result.difference) < 0

\* C4: each warning is present exactly when its condition holds, and the
\* missing-fields warning carries the number of transactions lacking an
\* amount or a direction, whether or not the replay can proceed.
C4_WarningsIff ==
    validation # None =>
        LET lacking == {i \in 1..Len(transactions) :
                          \/ transactions[i].amount = None
                          \/ transactions[i].direction = None}
        IN /\ HasWarning(Result, "no_starting_balance")
                <=> starting_balance = None
           /\ HasWarning(Result, "no_ending_balance")
                <=> ending_balance = None
           /\ HasWarning(Result, "no_transactions")
                <=> transactions = <<>>
           /\ HasWarning(Result, "missing_required_fields")
                <=> lacking # {}
           /\ \A i \in 1..Len(Result.warnings) :
                Result.warnings[i].kind = "missing_required_fields"
                    => Result.warnings[i].n = Cardinality(lacking)

\* the replay cannot proceed and a transaction lacks a field
C4_Witness ==
    /\ validation # None
    /\ ending_balance = None
    /\ HasWarning(Result, "missing_required_fields")
    /\ HasWarning(Result, "no_ending_balance")
    /\ ~HasWarning(Result, "no_starting_balance")

---------------------------------------------------------------------------
(* Properties of the Strategy Selector *)

\* the score as the specification states it
StatedScore(c) ==
    (IF c.starting_balance # None THEN 10 ELSE 0)
    + (IF c.ending_balance # None THEN 10 ELSE 0)
    + 2 * Len(c.transactions)
    + (IF c.validation.is_valid THEN 20 ELSE 0)

\* C8: for a non-empty candidate list the candidate returned has the
\* greatest score, and it is the earliest candidate with that score.
C8_BestIsEarliestMaximum ==
    (best_result # None /\ results # <<>>) =>
        \E k \in 1..Len(results) :
            /\ Val(best_result) = results[k]
            /\ \A j \in 1..Len(results) :
                 StatedScore(results[j]) <= StatedScore(results[k])
            /\ \A j \in 1..(k - 1) :
                 StatedScore(results[j]) < StatedScore(results[k])

\* a later candidate ties with the one returned, and a lower-scored
\* candidate precedes it
C8_Witness ==
    /\ best_result # None
    /\ Len(results) = MaxCandidates
    /\ Val(best_result) = results[2]
    /\ results[3] # results[2]
    /\ StatedScore(results[3]) = StatedScore(results[2])
    /\ StatedScore(results[1]) < StatedScore(results[2])

\* the candidate c with transaction t appended, all else kept
WithExtraTransaction(c, t) ==
    [c EXCEPT !.transactions = Append(@, t)]

\* C9: appending one transaction to a candidate, its balances and is_valid
\* unchanged, never decreases the candidate's score.
C9_ScoreMonotonic ==
    \A i \in 1..Len(results) :
        \A txns \in CandidateTransactions :
            \A j \in 1..Len(txns) :
                Score(WithExtraTransaction(results[i], txns[j]))
                    >= Score(results[i])

\* a valid candidate with transactions was scored and selected
C9_Witness ==
    /\ best_result # None
    /\ \E i \in 1..Len(results) :
         /\ results[i].validation.is_valid
         /\ results[i].transactions # <<>>
         /\ Val(best_result) = results[i]
         /\ Score(WithExtraTransaction(results[i], results[i].transactions[1]))
              > Score(results[i])

---------------------------------------------------------------------------
(* Properties of the entry points *)

\* the Statement the entry point returned
Parsed == Val(statement)

\* the transactions of the AI response the call was given
ResponseItems == Val(ai_input).ai_data.transactions.items

\* C5: a Statement returned by the heuristic parse_pdf, the AI parse_pdf or
\* extract_transactions_from_pdf that has error set has an empty
\* transactions list and validation.is_valid = false.
C5_ErrorMeansEmptyAndInvalid ==
    (statement # None /\ Parsed.error # None) =>
        /\ Parsed.transactions = <<>>
        /\ ~Parsed.validation.is_valid

\* the AI parse_pdf returned the Statement of its except branch
C5_Witness ==
    /\ entry = "ai"
    /\ statement # None
    /\ Parsed.error # None
    /\ Parsed.parsing_method = Some("ai_failed")

\* C6: every Transaction of every Statement an entry point returns, the AI
\* path's standardization of string and number amounts included, has
\* amount >= 0.
C6_AmountsUnsigned ==
    statement # None =>
        \A i \in 1..Len(Parsed.transactions) :
            Val(Parsed.transactions[i].amount) >= 0

\* the AI response lists one transaction, with amount "-20.00", and the
\* Statement stores it as -20.00
C6_Witness ==
    /\ entry = "ai"
    /\ statement # None
    /\ Val(ai_input).ai_data.transactions.type = "list"
    /\ Len(ResponseItems) = 1
    /\ ResponseItems[1].amount = JsonStr(<<"-", "2", "0", ".", "0", "0">>)
    /\ Len(Parsed.transactions) = 1
    /\ Parsed.transactions[1].amount = Some(0 - 2000 * CentUnits)

\* C7: every Transaction of every Statement an entry point returns (from
\* the table pass, the pattern pass with or without an explicit code, or
\* the AI standardization of any direction and type text) has direction
\* exactly Credit or Debit.
C7_DirectionCreditOrDebit ==
    statement # None =>
        \A i \in 1..Len(Parsed.transactions) :
            Parsed.transactions[i].direction \in {Some("Credit"), Some("Debit")}

\* the AI response lists one transaction whose direction ("fee") and type
\* ("transfer") say neither, and the Statement stores it as a Debit
C7_Witness ==
    /\ entry = "ai"
    /\ statement # None
    /\ Val(ai_input).ai_data.transactions.type = "list"
    /\ Len(ResponseItems) = 1
    /\ ResponseItems[1].direction = JsonStr(<<"f", "e", "e">>)
    /\ ResponseItems[1].type = JsonStr(<<"t", "r", "a", "n", "s", "f", "e", "r">>)
    /\ Len(Parsed.transactions) = 1
    /\ Parsed.transactions[1].direction = Some("Debit")

---------------------------------------------------------------------------
(* Properties of the batch *)

\* process_batch has ended, by a return or by an exception
BatchEnded == pc = "done"

\* statements holds one Statement per file, the i-th parsed from the i-th
\* file
StatementsInOrder(statements) ==
    /\ Len(statements) = Len(pdf_files)
    /\ \A i \in 1..Len(pdf_files) :
         statements[i] = process_single_file(pdf_files[i], use_ai, clock_year)

\* C10: for any list of files, any max_workers >= 1 and any order in which
\* the workers finish, process_batch returns, with one Statement per file
\* and statements[i] the Statement parsed from pdf_files[i].
C10_ReturnsStatementsInOrder ==
    BatchEnded =>
        /\ ~Val(batch_result).raised
        /\ StatementsInOrder(Val(batch_result).result.statements)

\* a batch of MaxFiles files, one of them with a closing balance and no
\* opening balance: every Statement was collected in order, and
\* process_batch raised
C10_Witness ==
    /\ BatchEnded
    /\ Len(pdf_files) = MaxFiles
    /\ \E i \in 1..Len(pdf_files) :
         /\ batch_results[i].starting_balance = None
         /\ batch_results[i].ending_balance # None
    /\ StatementsInOrder(batch_results)
    /\ Val(batch_result).raised

\* C11: whatever the parse outcome of each file is (an error-flagged
\* Statement, a missing starting balance, a missing ending balance, both
\* missing, a mismatch), process_batch returns a BatchResult with its
\* statistics: it never ends by an exception.
C11_BatchNeverRaises ==
    BatchEnded => ~Val(batch_result).raised

\* a batch of one file, whose Statement has an ending balance and no
\* starting balance: the statistics raised and process_batch with them
C11_Witness ==
    /\ BatchEnded
    /\ Len(pdf_files) = 1
    /\ batch_results[1].error = None
    /\ batch_results[1].starting_balance = None
    /\ batch_results[1].ending_balance # None
    /\ Val(batch_result).raised

---------------------------------------------------------------------------
(* Properties of the batch statistics *)

\* _calculate_statistics has ended, by a return or by an exception
StatisticsEnded == stat_outcome # None

\* the positions of the statements that have reconciliation data and a
\* non-zero expected ending balance
WithReconciliation(statements) ==
    {i \in 1..Len(statements) :
        /\ HasVariance(statements[i])
        /\ statements[i].validation.calculated_ending_balance # None}

\* the positions among those whose variance none of the others exceeds
Greatest(statements) ==
    {i \in WithReconciliation(statements) :
        \A j \in WithReconciliation(statements) :
            ~Exceeds(Variance(statements[j]), Variance(statements[i]))}

\* the entry that names the statement at position i
Named(statements, i) ==
    Some([index |-> i - 1,
          expected |-> Val(statements[i].validation.expected_ending_balance),
          calculated |-> Val(statements[i].validation.calculated_ending_balance),
          variance |-> Variance(statements[i])])

\* the statement of greatest variance, the earliest one on a tie, or none
\* when no statement has reconciliation data and a non-zero expected balance
GreatestVariance(statements) ==
    IF Greatest(statements) = {} THEN None
    ELSE Named(statements,
               CHOOSE i \in Greatest(statements) :
                   \A j \in Greatest(statements) : i <= j)

\* C12: highest_variance names the statement whose variance
\* |calculated - expected| / expected * 100 is greatest among the
\* statements with reconciliation data and a non-zero expected balance,
\* with its index, expected, calculated and variance; on a tie the
\* earliest one
C12_HighestVarianceIsGreatest ==
    StatisticsEnded =>
        /\ ~Val(stat_outcome).raised
        /\ Val(stat_outcome).result.highest_variance
               = GreatestVariance(stat_results)

\* a batch with a statement of 25 % variance and a statement that has only
\* its closing balance: the statistics raise and name no statement
C12_Witness ==
    /\ StatisticsEnded
    /\ Val(stat_outcome).raised
    /\ WithReconciliation(stat_results) # {}
    /\ \E i \in WithReconciliation(stat_results) :
           Variance(stat_results[i]) = Fraction(25, 1)

\* the positions of the statements whose expected ending balance is zero
ZeroExpected(statements) ==
    {i \in 1..Len(statements) :
        statements[i].validation.expected_ending_balance = Some(0)}

\* the same batch with an error-flagged Statement, which has no
\* reconciliation data, at each of those positions
WithoutZeroExpected(statements) ==
    [i \in 1..Len(statements) |->
        IF i \in ZeroExpected(statements) THEN ErrorStatement
        ELSE statements[i]]

\* C13: a statement whose expected ending balance is zero is never the
\* one highest_variance names, and the batch ends as the batch that has a
\* statement without reconciliation data in its place: by an exception
\* when that one does, else naming the same statement
C13_ZeroExpectedIgnored ==
    StatisticsEnded =>
        /\ Val(stat_outcome).raised =
               calculate_statistics(WithoutZeroExpected(stat_results)).raised
        /\ ~Val(stat_outcome).raised =>
               /\ Val(stat_outcome).result.highest_variance # None =>
                      Val(Val(stat_outcome).result.highest_variance).index + 1
                          \notin ZeroExpected(stat_results)
               /\ Val(stat_outcome).result.highest_variance =
                      calculate_statistics(WithoutZeroExpected(stat_results))
                          .result.highest_variance

\* the statistics of a batch with a statement from 5.00 to 0.00 and a
\* mismatching statement, which is the one named
C13_Witness ==
    /\ StatisticsEnded
    /\ ~Val(stat_outcome).raised
    /\ \E i \in ZeroExpected(stat_results) :
           stat_results[i].validation.calculated_ending_balance
               \notin {None, Some(0)}
    /\ Val(stat_outcome).result.highest_variance # None

\* valid_statements, invalid_statements, total_statements and
\* total_transactions are the counts over the statements
CountsAgree(statements, statistics) ==
    /\ statistics.total_statements = Len(statements)
    /\ statistics.valid_statements =
           Cardinality({i \in 1..Len(statements) :
                           statements[i].validation.is_valid})
    /\ statistics.invalid_statements =
           statistics.total_statements - statistics.valid_statements
    /\ statistics.total_transactions = TotalTransactions(statements)

\* the positions of the statements with no ending balance
MissingEnding(statements) ==
    {i \in 1..Len(statements) : statements[i].ending_balance = None}

\* C14: every batch has statistics whose valid_statements,
\* invalid_statements, total_statements and total_transactions are the
\* counts over its statements; a statement with no ending balance is not
\* valid and is not the one highest_variance names
C14_CountsOfEveryBatch ==
    StatisticsEnded =>
        /\ ~Val(stat_outcome).raised
        /\ CountsAgree(stat_results, Val(stat_outcome).result)
        /\ \A i \in MissingEnding(stat_results) :
               /\ ~stat_results[i].validation.is_valid
               /\ Val(stat_outcome).result.highest_variance # None =>
                      Val(Val(stat_outcome).result.highest_variance).index
                          # i - 1

\* a batch of two valid statements and one that has only its closing
\* balance: the statistics raise, so the batch has no counts
C14_Witness ==
    /\ StatisticsEnded
    /\ Val(stat_outcome).raised
    /\ Len(stat_results) = 3
    /\ ValidStatements(stat_results) = 2

---------------------------------------------------------------------------
(* Properties of the summary report *)

\* generate_summary_report has returned a report
Reported ==
    /\ summary_report # None
    /\ ~Val(summary_report).raised
    /\ Val(summary_report).result # None

\* the report returned
Report == Val(Val(summary_report).result)

\* the bucket of a statement by its validity and by its variance
\* percentage v = |calculated - expected| / |expected| * 100, compared
\* without dividing
Bucket(s) ==
    IF ~s.validation.is_valid THEN "invalid"
    ELSE IF s.validation.calculated_ending_balance
                = s.validation.expected_ending_balance
    THEN "no_variance"
    ELSE IF Abs(Val(s.validation.calculated_ending_balance)
                - Val(s.validation.expected_ending_balance)) * 100
                < Abs(Val(s.validation.expected_ending_balance))
    THEN "low_variance"
    ELSE IF Abs(Val(s.validation.calculated_ending_balance)
                - Val(s.validation.expected_ending_balance)) * 100
                <= 5 * Abs(Val(s.validation.expected_ending_balance))
    THEN "medium_variance"
    ELSE "high_variance"

\* C15: the report counts every statement of the batch in exactly one
\* bucket: invalid when is_valid is false, else no_variance when v = 0,
\* low_variance when 0 < v < 1, medium_variance when 1 <= v <= 5 and
\* high_variance when v > 5; the five counts sum to the number of
\* statements
C15_OneBucketEach ==
    Reported =>
        /\ DOMAIN Report.variance_distribution =
               {"no_variance", "low_variance", "medium_variance",
                "high_variance", "invalid"}
        /\ \A group \in DOMAIN Report.variance_distribution :
               Report.variance_distribution[group] =
                   Cardinality({i \in 1..Len(stat_results) :
                                   Bucket(stat_results[i]) = group})
        /\ Report.variance_distribution["no_variance"]
               + Report.variance_distribution["low_variance"]
               + Report.variance_distribution["medium_variance"]
               + Report.variance_distribution["high_variance"]
               + Report.variance_distribution["invalid"]
               = Len(stat_results)

\* the report of a batch with one statement in each of the low, medium
\* and high variance buckets, the medium one at exactly 5 %
C15_Witness ==
    /\ Reported
    /\ Report.variance_distribution["low_variance"] = 1
    /\ Report.variance_distribution["medium_variance"] = 1
    /\ Report.variance_distribution["high_variance"] = 1
    /\ \E i \in 1..Len(stat_results) :
           /\ stat_results[i].validation.is_valid
           /\ SummaryVariance(stat_results[i]) = Fraction(5, 1)

\* C16: the recommendations of the report are one for invalid_statements
\* above 0 and one for a non-empty high_variance bucket, each present
\* exactly when its condition holds, so the list is non-empty if and only
\* if one of the two conditions holds
C16_RecommendationPerCondition ==
    Reported =>
        /\ Len(Report.recommendations) =
               (IF Report.statistics.invalid_statements > 0 THEN 1 ELSE 0)
               + (IF Report.variance_distribution["high_variance"] > 0
                  THEN 1 ELSE 0)
        /\ Report.statistics.invalid_statements > 0 <=>
               \E k \in 1..Len(Report.recommendations) :
                   Report.recommendations[k].kind
                       = "review_invalid_statements"
        /\ Report.variance_distribution["high_variance"] > 0 <=>
               \E k \in 1..Len(Report.recommendations) :
                   Report.recommendations[k].kind
                       = "high_variance_statements"

\* the report of a batch with an invalid statement and a valid one of
\* high variance: both recommendations
C16_Witness ==
    /\ Reported
    /\ Report.statistics.invalid_statements > 0
    /\ Report.variance_distribution["high_variance"] > 0
    /\ Len(Report.recommendations) = 2

---------------------------------------------------------------------------
(* Properties of the Date Normalizer *)

\* _parse_date has returned
Normalized == normalized_date # None

\* chars has the form YYYY-MM-DD: four digits, two digits and two digits
\* with hyphens between them
IsoForm(chars) ==
    /\ Len(chars) = 10
    /\ \A i \in {1, 2, 3, 4, 6, 7, 9, 10} : IsDigit(chars[i])
    /\ chars[5] = "-"
    /\ chars[8] = "-"

\* C17: for every token and context text _parse_date returns either a
\* date of the form YYYY-MM-DD or the token unchanged; a token of a known
\* shape whose fields are no calendar date under the format of that
\* shape is returned unchanged
C17_IsoFormOrUnchanged ==
    Normalized =>
        \/ IsoForm(Val(normalized_date))
        \/ Val(normalized_date) = token

\* the token 01/01/0999 is returned as 999-01-01
C17_Witness ==
    /\ Normalized
    /\ token = <<"0", "1", "/", "0", "1", "/", "0", "9", "9", "9">>
    /\ Val(normalized_date) = <<"9", "9", "9", "-", "0", "1", "-", "0", "1">>

\* C18: every token already of the form YYYY-MM-DD is returned unchanged,
\* so that normalizing the date returned once more gives the same date
C18_IsoFormRoundTrip ==
    (Normalized /\ IsoForm(token)) =>
        /\ Val(normalized_date) = token
        /\ BankStatementParser_parse_date(Val(normalized_date), context,
                                          clock_year)
               = Val(normalized_date)

\* the token 0999-01-01 is returned as 999-01-01
C18_Witness ==
    /\ Normalized
    /\ token = <<"0", "9", "9", "9", "-", "0", "1", "-", "0", "1">>
    /\ Val(normalized_date) = <<"9", "9", "9", "-", "0", "1", "-", "0", "1">>

---------------------------------------------------------------------------
(* Properties of the heuristic pipeline *)

\* the text of the three lines of the scenario
GroceryText ==
    <<"Beginning Balance: $100.00",
      "05/01/2024 Grocery Store Debit $20.00",
      "Ending Balance: $80.00">>

\* parse_pdf has returned the Statement of that text
GroceryParsed ==
    /\ entry = "heuristic"
    /\ extracted_text = Some(GroceryText)
    /\ statement # None

\* the Statement has starting balance 100.00, ending balance 80.00,
\* exactly one transaction, a Debit of 20.00 on the date given, and
\* is_valid true
GroceryStatement(date) ==
    /\ Parsed.starting_balance = Some(10000 * CentUnits)
    /\ Parsed.ending_balance = Some(8000 * CentUnits)
    /\ Len(Parsed.transactions) = 1
    /\ Parsed.transactions[1].date = date
    /\ Parsed.transactions[1].amount = Some(2000 * CentUnits)
    /\ Parsed.transactions[1].direction = Some("Debit")
    /\ Parsed.validation.is_valid

\* C19 as stated: the text of the three lines yields starting balance
\* 100.00, ending balance 80.00, exactly one transaction with date
\* 2024-05-01, amount 20.00 and direction Debit, and is_valid true
C19_DateMonthFirst ==
    GroceryParsed => GroceryStatement(<<"2", "0", "2", "4", "-", "0", "5", "-", "0", "1">>)

\* C19: the text of the three lines yields starting balance 100.00,
\* ending balance 80.00, exactly one transaction with date 2024-01-05 (the
\* token 05/01/2024 read as DD/MM/YYYY), amount 20.00 and direction
\* Debit, and is_valid true
C19_DateDayFirst ==
    GroceryParsed => GroceryStatement(<<"2", "0", "2", "4", "-", "0", "1", "-", "0", "5">>)

\* the Statement of that text, with its one transaction
C19_Witness ==
    /\ GroceryParsed
    /\ Len(Parsed.transactions) = 1
    /\ Parsed.transactions[1].date
           = <<"2", "0", "2", "4", "-", "0", "1", "-", "0", "5">>
    /\ Parsed.validation.is_valid

\* both runs have returned
RanTwice == statement # None /\ rerun_statement # None

\* C20 as stated: two runs of the heuristic pipeline on the same text
\* return the same Statement, whatever the calendar year of the clock is
\* at each run
C20_RerunsAgree ==
    RanTwice => rerun_statement = statement

\* four digits in a row end at position p, from 1, of line i of the text
\* and lie within its first 200 characters
FourDigitsEndAt(text, i, p) ==
    /\ \A q \in (p - 3)..p : IsDigit(text[i].chars[q])
    /\ LineStart(text, i) + p <= 200

\* the first 200 characters of the text hold four digits in a row
YearInHeader ==
    /\ extracted_text # None
    /\ LET text == [i \in 1..Len(Val(extracted_text)) |->
                       LineFacts(Val(extracted_text)[i])]
       IN \E i \in 1..Len(text) :
              \E p \in 4..Len(text[i].chars) : FourDigitsEndAt(text, i, p)

\* C20: two runs of the heuristic pipeline on the same text return the
\* same Statement when both happen in the same calendar year, when no
\* text could be extracted, or when the first 200 characters of the text
\* hold a four-digit number, which is then the year of the dates written
\* without one
C20_RerunsAgreeUnlessYearFromClock ==
    (RanTwice /\ (\/ rerun_year = clock_year
                  \/ extracted_text = None
                  \/ YearInHeader)) =>
        rerun_statement = statement

\* a text whose first line holds 2024 and whose second line has the date
\* 05/02, parsed in 2025 and again in 2026: the same Statement, its
\* transactions dated 2024
C20_Witness ==
    /\ RanTwice
    /\ extracted_text = Some(<<"05/01/2024 Grocery Store Debit $20.00",
                               "05/02 Payroll 1,500.00">>)
    /\ clock_year = 2025
    /\ rerun_year = 2026
    /\ \E k \in 1..Len(Val(rerun_statement).transactions) :
           Val(rerun_statement).transactions[k].date
               = <<"2", "0", "2", "4", "-", "0", "5", "-", "0", "2">>
    /\ rerun_statement = statement

---------------------------------------------------------------------------
(* Properties of the AI path *)

\* AIBankStatementParser.parse_pdf has returned
AIParsed == entry = "ai" /\ statement # None

\* the call meets a fault: no client, a fault before the response is
\* decoded, or an exception in _standardize_ai_response
AIFault ==
    \/ ~Val(ai_input).has_client
    \/ Val(ai_input).fault # "none"
    \/ standardize_ai_response(Val(ai_input).ai_data).raised

\* C21: AIBankStatementParser.parse_pdf returns a Statement for every
\* input: on any fault of the AI path one with error set, no transaction,
\* parsing_method ai_failed and is_valid false, and otherwise one with
\* parsing_method ai and no error
C21_FaultsBecomeFailedStatements ==
    AIParsed =>
        IF AIFault
        THEN /\ Parsed.error # None
             /\ Parsed.transactions = <<>>
             /\ Parsed.parsing_method = Some("ai_failed")
             /\ ~Parsed.validation.is_valid
        ELSE /\ Parsed.error = None
             /\ Parsed.parsing_method = Some("ai")

\* a response that is decoded and whose standardization raises: the
\* Statement returned is the failed one
C21_Witness ==
    /\ AIParsed
    /\ Val(ai_input).has_client
    /\ Val(ai_input).fault = "none"
    /\ standardize_ai_response(Val(ai_input).ai_data).raised
    /\ Parsed.parsing_method = Some("ai_failed")

\* the amount of the raw transaction is present and converts to a number
Convertible(item) == item.is_dict /\ StandardizeAmount(item.amount) # None

RECURSIVE KeptTransactions(_)
\* the standardized transactions of the raw transactions with a
\* convertible amount, in their order
KeptTransactions(items) ==
    IF items = <<>> THEN <<>>
    ELSE (IF Convertible(Head(items))
          THEN StandardizeTransaction(Head(items)).result ELSE <<>>)
         \o KeptTransactions(Tail(items))

\* the response is decoded to an object with a list of transactions, of
\* which those with a convertible amount standardize without exception
KeepableResponse ==
    /\ Val(ai_input).has_client
    /\ Val(ai_input).fault = "none"
    /\ Val(ai_input).ai_data.is_dict
    /\ Val(ai_input).ai_data.transactions.type = "list"
    /\ \A k \in 1..Len(ResponseItems) :
           Convertible(ResponseItems[k]) =>
               ~StandardizeTransaction(ResponseItems[k]).raised

\* C22: a raw transaction whose amount is missing or not convertible is
\* dropped, whatever its other fields are, while the other transactions
\* of the response are kept and the parse succeeds
C22_UnconvertibleAmountDropped ==
    (AIParsed /\ KeepableResponse) =>
        /\ Parsed.parsing_method = Some("ai")
        /\ Parsed.transactions = KeptTransactions(ResponseItems)

\* a response with a transaction whose amount and direction are null next
\* to a transaction of "$20.00": the parse fails
C22_Witness ==
    /\ AIParsed
    /\ KeepableResponse
    /\ \E k \in 1..Len(ResponseItems) :
           /\ ResponseItems[k].is_dict
           /\ ResponseItems[k].amount = JsonNone
           /\ ResponseItems[k].direction = JsonNone
    /\ \E k \in 1..Len(ResponseItems) : Convertible(ResponseItems[k])
    /\ Parsed.parsing_method = Some("ai_failed")

---------------------------------------------------------------------------
(* Properties of the Direction Classifier *)

\* the classifier of parser.py has returned
ParserClassified == parser_direction # None

\* the rules in their order: whether each applies to the call and what it
\* gives; the last one is the default
DirectionRules ==
    <<[applies |-> credit_flag, gives |-> "Credit"],
      [applies |-> debit_flag, gives |-> "Debit"],
      [applies |-> ContainsAny(LowerText(line_text),
                       <<<<"d", "e", "p", "o", "s", "i", "t", " ", "m", "a", "d", "e", " ", "i", "n", " ", "a", " ", "b", "r", "a", "n", "c", "h", "/", "s", "t", "o", "r", "e">>, <<"d", "e", "p", "o", "s", "i", "t">>,
                         <<"b", "a", "n", "k", "c", "a", "r", "d">>, <<"m", "t", "o", "t", " ", "d", "e", "p">>>>),
       gives |-> "Credit"],
      [applies |-> \/ ContainsWord(line_text, <<"C", "R">>)
                   \/ SignBeforeDigit(line_text, "+"),
       gives |-> "Credit"],
      [applies |-> \/ ContainsWord(line_text, <<"D", "R">>)
                   \/ SignBeforeDigit(line_text, "-"),
       gives |-> "Debit"],
      [applies |-> ContainsAny(LowerText(line_text), credit_indicators),
       gives |-> "Credit"],
      [applies |-> ContainsAny(LowerText(line_text), debit_indicators),
       gives |-> "Debit"],
      [applies |-> ContainsAny(LowerText(line_text),
                       <<<<"p", "u", "r", "c", "h", "a", "s", "e">>, <<"p", "a", "y", "m", "e", "n", "t">>, <<"w", "i", "t", "h", "d", "r", "a", "w", "a", "l">>, <<"f", "e", "e">>,
                         <<"c", "h", "a", "r", "g", "e">>>>),
       gives |-> "Debit"],
      [applies |-> TRUE, gives |-> "Debit"]>>

\* the first rule that applies
FirstApplicable ==
    CHOOSE r \in 1..Len(DirectionRules) :
        /\ DirectionRules[r].applies
        /\ \A q \in 1..(r - 1) : ~DirectionRules[q].applies

\* C23: the classifier returns what the first applicable rule gives, in
\* the order section flags, deposit phrases, CR or plus sign, DR or minus
\* sign, credit keywords, debit keywords, expense keywords, default; the
\* result is Credit or Debit, and Debit when only the default applies
C23_FirstApplicableRule ==
    ParserClassified =>
        /\ Val(parser_direction) = DirectionRules[FirstApplicable].gives
        /\ Val(parser_direction) \in {"Credit", "Debit"}
        /\ FirstApplicable = Len(DirectionRules) =>
               Val(parser_direction) = "Debit"

\* a line with a deposit phrase and a DR token outside any section: the
\* deposit phrase is the first applicable rule and gives Credit
C23_Witness ==
    /\ ParserClassified
    /\ ~credit_flag
    /\ ~debit_flag
    /\ DirectionRules[3].applies
    /\ DirectionRules[5].applies
    /\ Val(parser_direction) = "Credit"

\* the line carries a DR token or a minus sign before a digit and neither
\* a CR token nor a plus sign before a digit
MarkedDebit == DirectionRules[5].applies /\ ~DirectionRules[4].applies

\* the line carries a CR token or a plus sign before a digit and neither
\* a DR token nor a minus sign before a digit
MarkedCredit == DirectionRules[4].applies /\ ~DirectionRules[5].applies

\* C24: outside the sections, a line with an explicit DR token or minus
\* sign is classified Debit and a line with an explicit CR token or plus
\* sign is classified Credit, by either classifier, whatever keywords or
\* deposit phrases the line also has
C24_MarkersOverride ==
    (~credit_flag /\ ~debit_flag) =>
        /\ (ParserClassified /\ MarkedDebit) =>
               Val(parser_direction) = "Debit"
        /\ (ParserClassified /\ MarkedCredit) =>
               Val(parser_direction) = "Credit"
        /\ (utils_direction # None /\ MarkedDebit) =>
               Val(utils_direction) = "Debit"
        /\ (utils_direction # None /\ MarkedCredit) =>
               Val(utils_direction) = "Credit"

\* the line "Deposit reversal DR 5.00" outside any section: Credit by the
\* classifier of parser.py, Debit by the one of utils.py
C24_Witness ==
    /\ line_text = <<"D", "e", "p", "o", "s", "i", "t", " ", "r", "e", "v", "e", "r", "s", "a", "l", " ", "D", "R", " ", "5", ".", "0", "0">>
    /\ ~credit_flag
    /\ ~debit_flag
    /\ parser_direction = Some("Credit")
    /\ utils_direction = Some("Debit")

---------------------------------------------------------------------------
(* Properties of the merge of the two passes *)

\* parse_pdf has returned the Statement of an extracted text
HeuristicParsed ==
    /\ entry = "heuristic"
    /\ extracted_text # None
    /\ statement # None

\* what the parser's regular expressions find in the lines of the text
ExtractedFacts ==
    [i \in 1..Len(Val(extracted_text)) |-> LineFacts(Val(extracted_text)[i])]

\* the output of the table pass and of the pattern pass on the text
TablePass ==
    BankStatementParser_extract_table_transactions(ExtractedFacts, clock_year)

PatternPass ==
    BankStatementParser_extract_pattern_transactions(ExtractedFacts, clock_year)

\* the k-th pattern transaction has a signature that no table transaction
\* and no pattern transaction before it has
NewSignature(table, pattern, k) ==
    /\ \A j \in 1..Len(table) : Signature(table[j]) # Signature(pattern[k])
    /\ \A j \in 1..(k - 1) : Signature(pattern[j]) # Signature(pattern[k])

\* the table transactions in order, then the pattern transactions with a
\* new signature in pattern-pass order
MergedAsStated(table, pattern) ==
    LET new == {k \in 1..Len(pattern) : NewSignature(table, pattern, k)}
        Nth(i) == CHOOSE k \in new : Cardinality({j \in new : j <= k}) = i
    IN table \o [i \in 1..Cardinality(new) |-> pattern[Nth(i)]]

---------------------------------------------------------------------------
(* Properties of the Balance Extractor *)

\* the capture of balance pattern k in the text: that of the first line
\* the pattern matches, None when it matches no line
StartingCapture(text, k) ==
    IF \A i \in 1..Len(text) : text[i].starting[k] = None THEN None
    ELSE text[CHOOSE i \in 1..Len(text) :
                  /\ text[i].starting[k] # None
                  /\ \A j \in 1..(i - 1) : text[j].starting[k] = None].starting[k]

EndingCapture(text, k) ==
    IF \A i \in 1..Len(text) : text[i].ending[k] = None THEN None
    ELSE text[CHOOSE i \in 1..Len(text) :
                  /\ text[i].ending[k] # None
                  /\ \A j \in 1..(i - 1) : text[j].ending[k] = None].ending[k]

\* the lines with an amount after a currency symbol
CurrencyLines(text) == {i \in 1..Len(text) : text[i].first_currency # None}

\* the amount of the first pattern in list order with a capture; with no
\* such pattern the fallback amount; absent with neither
BalanceAsStated(captures, fallback) ==
    LET matching == {k \in DOMAIN captures : captures[k] # None}
    IN IF matching # {}
       THEN FloatWithoutCommas(
                Val(captures[CHOOSE k \in matching : \A j \in matching : k <= j]))
       ELSE IF fallback # None THEN FloatWithoutCommas(Val(fallback))
       ELSE None

\* the first currency amount of the text, the texts of the model being
\* shorter than 1000 characters
FirstCurrencyAmount(text) ==
    IF CurrencyLines(text) = {} THEN None
    ELSE text[CHOOSE i \in CurrencyLines(text) :
                  \A j \in CurrencyLines(text) : i <= j].first_currency

LastCurrencyAmount(text) ==
    IF CurrencyLines(text) = {} THEN None
    ELSE text[CHOOSE i \in CurrencyLines(text) :
                  \A j \in CurrencyLines(text) : i >= j].last_currency

StartingAsStated(text) ==
    BalanceAsStated([k \in starting_balance_patterns |-> StartingCapture(text, k)],
                    FirstCurrencyAmount(text))

EndingAsStated(text) ==
    BalanceAsStated([k \in ending_balance_patterns |-> EndingCapture(text, k)],
                    LastCurrencyAmount(text))

---------------------------------------------------------------------------
(* Properties of the pattern pass *)

\* the line is a section header
IsSectionHeader(line) == IsCreditHeader(line) \/ IsDebitHeader(line)

\* the section state the two flags stand for
SectionState ==
    IF scan_credit /\ scan_debit THEN "credit and debit"
    ELSE IF scan_credit THEN "credit"
    ELSE IF scan_debit THEN "debit"
    ELSE "neither"

\* the kind of the most recent section header among the first n lines,
\* neither when there is none
MostRecentHeader(text, n) ==
    LET headers == {i \in 1..n : IsSectionHeader(text[i])}
    IN IF headers = {} THEN "neither"
       ELSE IF IsCreditHeader(text[CHOOSE i \in headers : \A j \in headers : j <= i])
            THEN "credit"
            ELSE "debit"

\* the scan goes over a section header line
HeaderStep ==
    /\ scan_pos' = scan_pos + 1
    /\ IsSectionHeader(ScanFacts[scan_pos + 1])

\* C27: during the line scan of the pattern pass the section state is
\* never credit and debit at once; it is neither before the first section
\* header and after any line it is the kind of the most recent section
\* header seen; a section header line yields no transaction, and the state
\* never goes back to neither
C27_SectionState ==
    /\ [](SectionState = MostRecentHeader(ScanFacts, scan_pos))
    /\ [][/\ HeaderStep => scan_transactions' = scan_transactions
          /\ SectionState # "neither" => SectionState' # "neither"]_vars

\* a credit header, then a debit header, then a line that yields a
\* transaction have been scanned: the state is debit
C27_Witness ==
    /\ scan_pos = 3
    /\ IsCreditHeader(ScanFacts[1])
    /\ IsDebitHeader(ScanFacts[2])
    /\ ~IsSectionHeader(ScanFacts[3])
    /\ scan_transactions # <<>>
    /\ SectionState = "debit"


\* the transaction of the first pattern, in list order, that matches line
\* i and gives a transaction; none when no pattern does
FirstSucceeding(text, i, credit_section, debit_section, now_year) ==
    LET Of(p) ==
            IF text[i].matches[p] = None THEN <<>>
            ELSE PatternTransaction(Val(text[i].matches[p]), credit_section,
                                    debit_section, text, now_year)
        succeeding == {p \in transaction_patterns : Of(p) # <<>>}
    IN IF succeeding = {} THEN <<>>
       ELSE Of(CHOOSE p \in succeeding : \A q \in succeeding : p <= q)

\* C28: in the pattern pass each text line yields at most one transaction,
\* that of the first pattern in list order that succeeds on the line; no
\* later pattern is applied to the line
C28_OneTransactionPerLine ==
    [][(scan_pos' = scan_pos + 1 /\ ~HeaderStep) =>
           scan_transactions' =
               scan_transactions
               \o FirstSucceeding(ScanFacts, scan_pos + 1, scan_credit,
                                  scan_debit, clock_year)]_vars

\* the one line '05/03 Refund CR 12.50' has been scanned and the pass
\* holds more than one transaction
C28_Witness ==
    /\ scan_text = <<"05/03 Refund CR 12.50">>
    /\ scan_pos = 1
    /\ Len(scan_transactions) > 1

---------------------------------------------------------------------------
(* Properties of the three validators *)

\* the three validators have returned
AllValidated ==
    /\ validation # None
    /\ ai_validation # None
    /\ utils_validation # None

\* the fields of a validation the claim compares
ValidationFields(v) ==
    <<v.is_valid, v.warnings, v.calculated_ending_balance,
      v.expected_ending_balance, v.difference, v.message>>

\* C29: on the same starting balance, ending balance and transaction list
\* BankStatementParser._validate_transactions,
\* AIBankStatementParser._validate_transactions and
\* utils.validate_transactions return the same is_valid, warnings,
\* calculated_ending_balance, expected_ending_balance, difference and
\* message
C29_ValidatorsEquivalent ==
    AllValidated =>
        /\ ValidationFields(Val(ai_validation)) = ValidationFields(Val(validation))
        /\ ValidationFields(Val(utils_validation)) = ValidationFields(Val(validation))

\* the three have returned on balances and transactions that differ by
\* exactly one cent, with a transaction that lacks a required field
C29_Witness ==
    /\ AllValidated
    /\ Val(validation).difference # None
    /\ Abs(Val(Val(validation).difference)) = CentUnits
    /\ ~Val(validation).is_valid
    /\ \E i \in 1..Len(transactions) :
           transactions[i].amount = None \/ transactions[i].direction = None

---------------------------------------------------------------------------
(* Properties of the report under exact arithmetic *)

\* the validation of the Statement is what the validator returns on its
\* balances and transactions in the exact arithmetic of the model, or the
\* Statement is error-flagged
ExactlyValidated(s) ==
    \/ s.error # None
    \/ s.validation =
           BankStatementParser_validate_transactions(
               s.starting_balance, s.ending_balance, s.transactions)

\* every Statement of the batch is
ExactBatch ==
    \A i \in 1..Len(stat_results) : ExactlyValidated(stat_results[i])

\* C30: with the validator's arithmetic exact to the cent, every statement
\* with is_valid true has its calculated balance equal to the expected
\* one, so the report counts every statement under no_variance or
\* invalid: low_variance, medium_variance and high_variance are 0, the
\* high-variance recommendation is not given, and the invalid bucket
\* equals statistics.invalid_statements
C30_ValidMeansNoVariance ==
    (Reported /\ ExactBatch) =>
        /\ \A i \in 1..Len(stat_results) :
               stat_results[i].validation.is_valid =>
                   /\ stat_results[i].validation.calculated_ending_balance # None
                   /\ stat_results[i].validation.calculated_ending_balance
                          = stat_results[i].validation.expected_ending_balance
        /\ Report.variance_distribution["low_variance"] = 0
        /\ Report.variance_distribution["medium_variance"] = 0
        /\ Report.variance_distribution["high_variance"] = 0
        /\ Report.variance_distribution["no_variance"]
               + Report.variance_distribution["invalid"] = Len(stat_results)
        /\ \A k \in 1..Len(Report.recommendations) :
               Report.recommendations[k].kind # "high_variance_statements"
        /\ Report.variance_distribution["invalid"]
               = Report.statistics.invalid_statements

\* the report of an exactly validated batch with a statement that
\* reconciles and one whose balances are both present and 25 % apart
C30_Witness ==
    /\ Reported
    /\ ExactBatch
    /\ Report.variance_distribution["no_variance"] > 0
    /\ Report.variance_distribution["invalid"] > 0
    /\ \E i \in 1..Len(stat_results) :
           /\ ~stat_results[i].validation.is_valid
           /\ stat_results[i].validation.calculated_ending_balance
                  = Some(10000 * CentUnits)
           /\ stat_results[i].validation.expected_ending_balance
                  = Some(8000 * CentUnits)

===========================================================================
